---------------------------- MODULE Spec2Model ----------------------------
(***************************************************************************)
(* gsd-bridge: the per-plan execution state machine (state.py,             *)
(* codex_adapter.py), the lock-file mutex (state.state_lock) and the       *)
(* eligibility scheduler (codex_adapter.get_eligible_plans).               *)
(*                                                                         *)
(* The specifications that share the module:                               *)
(*   Spec       one plan's stored record under the adapter operations,     *)
(*              called one at a time (each action is a whole call:         *)
(*              state_lock, read_state, the mutation, write_state);        *)
(*   SpecSched  get_eligible_plans and get_next_plan over a manifest and   *)
(*              the records of its plans, which move along the transition  *)
(*              table; cmd_archive and the manifest status sync run too;   *)
(*   SpecLock   two processes calling complete_task (under state_lock)     *)
(*              and rollback_execution, one file operation per step;       *)
(*   SpecLockFair  SpecLock with a running clock and acquirers that keep   *)
(*              running;                                                   *)
(*   SpecStart  two processes calling start_execution on a pending plan,   *)
(*              under state_lock, one file operation per step;             *)
(*   SpecWrite  write_state one system call per step, a writer that may    *)
(*              die between any two steps, and a reader;                   *)
(*   SpecUnlock cmd_unlock one adapter call per step, next to the calls    *)
(*              of another run;                                            *)
(*   SpecRollback  rollback_execution as its read and its write, next to   *)
(*              the calls of a run;                                        *)
(*   SpecExecute  cmd_execute run again and again on a manifest, and the   *)
(*              executors that verify the plans it started.                *)
(*                                                                         *)
(* A behaviour of Spec fixes at Init which arguments its callers pass (one  *)
(* of Scenarios): every operation is callable in every scenario, and each  *)
(* scenario widens the arguments of one group of fields.  A behaviour of   *)
(* SpecSched fixes its manifest and its callers likewise.                  *)
(*                                                                         *)
(* The strings the scheduler normalizes and compares (plan ids, paths,     *)
(* dependency tokens) are sequences of one-character strings.              *)
(*                                                                         *)
(* An optional value (Python's None or a value) is a sequence of length 0  *)
(* or 1.  Time is in seconds.  Of PlanState the model keeps the fields     *)
(* the operations decide on; the timestamps updated_at, created_at and     *)
(* last_run_at, the git shas and the log paths are left out.               *)
(***************************************************************************)
EXTENDS Integers, Sequences, FiniteSets, TLC

\* ------------------------------------------------------------- bounds
\* the clock advances TickSeconds at a time, MaxTicks times
TickSeconds == 3600
MaxTicks == 1
\* task numbers callers pass to complete_task: 1..MaxTaskNum
MaxTaskNum == 3
\* recovery notes and verification results kept per record
MaxNotes == 2
MaxResults == 1

\* total_tasks of the plan
TotalTasks == 2

\* SpecLock: calls per process, and clock ticks
MaxCalls == 1
LockMaxTicks == 2
MaxShortTicks == 2

\* ----------------------------------------------------- program constants
DEFAULT_LOCK_LEASE_SECONDS == 3600

None == << >>
Some(x) == << x >>

VARIABLES
    state,      \* the stored PlanState record of the plan
    now,        \* the wall clock, seconds
    lastOp,     \* the last adapter call: [op, to, run, src, arg, again, ok]
    inputs,     \* the arguments the callers of this behaviour pass
    unlock,     \* the running cmd_unlock: None, or its position and what it read
    rollback,   \* the running rollback_execution: None, or the record it read
    \* SpecSched
    manifest,   \* _manifest.json: the ordered entries, each with its mirrored status
    store,      \* _state/<plan_id>.json of every plan: its status, or None (no file)
    archived,   \* per plan, the status of its record when cmd_archive took it away
    archiving,  \* a cmd_archive between its two writes: the manifest it read, the plan
    schedOut,   \* the last get_eligible_plans call: its filters and its result
    \* SpecLock
    lockFile,   \* <state>.json.lock: None, or its inode, payload and mtime
    pc,         \* per process, where it is in its call
    call,       \* per process, the call it runs: its number, operation and deadline
    localState, \* per process, the record it read
    expires,    \* per process, the expires_at it wrote into its lock file
    returned,   \* per process, the tasks its complete_task calls returned for
    \* SpecWrite
    stateIntact, \* whether the bytes at the state path are a complete record
    tmpFile,    \* the temporary file of the running write_state: None, or its content
    writer,     \* the running write_state: its position, the old and the new record
    lastRead    \* the last read_state of a reader: None, or what it got and when

smVars == << state, now, lastOp, inputs, unlock, rollback >>
scVars == << manifest, store, archived, archiving, schedOut >>
lkVars == << lockFile, pc, call, localState, expires, returned >>
wrVars == << stateIntact, tmpFile, writer, lastRead >>
vars == << smVars, scVars, lkVars, wrVars >>

\* the scheduler's files and the lock's processes, in a behaviour without them
NoManifest == manifest = << >> /\ store = << >> /\ archived = << >>
                /\ archiving = None /\ schedOut = None
NoProcesses == lockFile = None /\ pc = << >> /\ call = << >> /\ localState = << >>
                 /\ expires = << >> /\ returned = << >>

\* the state file as init_state and write_state left it, nobody writing
NoWriter == stateIntact = TRUE /\ tmpFile = None /\ writer = << >> /\ lastRead = None

VALID_STATUSES == {"pending", "executing", "blocked", "verified", "failed"}

\* the table with one more entry, pending -> verified
VALID_TRANSITIONS_loose ==
    [s \in VALID_STATUSES |->
        CASE s = "pending"   -> {"executing", "verified"}
          [] s = "executing" -> {"verified", "failed", "blocked"}
          [] s = "blocked"   -> {"executing"}
          [] s = "failed"    -> {"executing"}
          [] OTHER           -> {}]

VALID_TRANSITIONS ==
    [s \in VALID_STATUSES |->
        CASE s = "pending"   -> {"executing"}
          [] s = "executing" -> {"verified", "failed", "blocked"}
          [] s = "blocked"   -> {"executing"}
          [] s = "failed"    -> {"executing"}
          [] OTHER           -> {}]

VALID_SEVERITIES == {"critical", "high", "medium", "low"}

Runs == {"r1", "r2"}

\* a raised exception: nothing is written
Raise == [ok |-> FALSE]
Return(st) == [ok |-> TRUE, st |-> st]

\* setattr(state, key, value) for every key of kwargs
SetAttrs(st, kwargs) ==
    [f \in DOMAIN st |-> IF f \in DOMAIN kwargs THEN kwargs[f] ELSE st[f]]

init_state ==
    [plan_id          |-> "plan-a",
     source_plan_hash |-> "h0",
     status           |-> "pending",
     completed_tasks  |-> << >>,
     total_tasks      |-> TotalTasks,
     verification     |-> None,
     executor         |-> None,
     blocked_reason   |-> None,
     blocked_severity |-> None,
     failure_reason   |-> None,
     lock             |-> None,
     recovery_notes   |-> << >>,
     cursor           |-> None]

\* state.transition: the table check, then the status, the lease and kwargs
transition(st, new_status, kwargs) ==
    LET allowed == IF st.status \in DOMAIN VALID_TRANSITIONS
                   THEN VALID_TRANSITIONS[st.status] ELSE {}
    IN  IF new_status \notin allowed
        THEN Raise
        ELSE LET s1 == [st EXCEPT !.status = new_status]
                 s2 == IF new_status \in {"verified", "failed"}
                       THEN [s1 EXCEPT !.lock = None] ELSE s1
             IN  Return(SetAttrs(s2, kwargs))

\* -------------------------------------------------------------- state.py

RECURSIVE Insert(_, _)
Insert(seq, x) ==
    IF seq = << >> THEN << x >>
    ELSE IF x <= Head(seq) THEN << x >> \o seq
    ELSE << Head(seq) >> \o Insert(Tail(seq), x)

\* list.sort()
RECURSIVE Sort(_)
Sort(seq) == IF seq = << >> THEN << >> ELSE Insert(Sort(Tail(seq)), Head(seq))

Elems(seq) == {seq[i] : i \in 1..Len(seq)}

\* sorted(set(...))
RECURSIVE SortedOf(_)
SortedOf(S) ==
    IF S = {} THEN << >>
    ELSE LET m == CHOOSE x \in S : \A y \in S : x <= y
         IN  << m >> \o SortedOf(S \ {m})

\* a completion that appends the task number whether present or not
complete_task_appending(st, task_num) ==
    LET next_task == task_num + 1
        cur == IF next_task <= st.total_tasks
               THEN [task |-> next_task, step |-> 0]
               ELSE [task |-> task_num, step |-> -1]
    IN  [st EXCEPT !.completed_tasks = Sort(Append(st.completed_tasks, task_num)),
                   !.cursor = Some(cur)]

\* state.complete_task
complete_task(st, task_num) ==
    LET done == IF task_num \notin Elems(st.completed_tasks)
                THEN Sort(Append(st.completed_tasks, task_num))
                ELSE st.completed_tasks
        next_task == task_num + 1
        cur == IF next_task <= st.total_tasks
               THEN [task |-> next_task, step |-> 0]
               ELSE [task |-> task_num, step |-> -1]
    IN  [st EXCEPT !.completed_tasks = done, !.cursor = Some(cur)]

\* state.advance_step
advance_step(st, step) ==
    IF st.cursor = None
    THEN [st EXCEPT !.cursor = Some([task |-> 1, step |-> step])]
    ELSE [st EXCEPT !.cursor = Some([st.cursor[1] EXCEPT !.step = step])]

\* dict.get(tier, [])
TierResults(verification, tier) ==
    IF verification # None /\ tier \in DOMAIN verification[1]
    THEN verification[1][tier] ELSE << >>

\* dict[tier] = results
PutTier(d, tier, results) ==
    [t \in DOMAIN d \cup {tier} |-> IF t = tier THEN results ELSE d[t]]

EmptyDict == [t \in {} |-> << >>]

\* state.record_verification
record_verification(st, tier, command, exit_code, t) ==
    LET d == IF st.verification = None THEN EmptyDict ELSE st.verification[1]
        result == [command |-> command, exit_code |-> exit_code, ran_at |-> t]
    IN  [st EXCEPT !.verification =
            Some(PutTier(d, tier, Append(TierResults(st.verification, tier), result)))]

\* state.acquire_lease
acquire_lease(st, run_id, lease_seconds, t) ==
    IF st.lock # None /\ st.lock[1].expires_at > t
    THEN Raise
    ELSE LET notes ==
                 IF st.lock # None
                 THEN Append(st.recovery_notes,
                        [event                |-> "lease_expired_takeover",
                         previous_run_id      |-> st.lock[1].run_id,
                         previous_acquired_at |-> st.lock[1].acquired_at,
                         previous_expires_at  |-> st.lock[1].expires_at,
                         taken_over_at        |-> t,
                         new_run_id           |-> run_id])
                 ELSE st.recovery_notes
         IN  Return([st EXCEPT
                 !.recovery_notes = notes,
                 !.lock = Some([run_id      |-> run_id,
                                acquired_at |-> t,
                                expires_at  |-> t + lease_seconds])])

\* a renewal that does not look at the caller's run id
renew_lease_any_run(st, run_id, lease_seconds, t) ==
    IF st.lock = None THEN Raise
    ELSE Return([st EXCEPT
            !.lock = Some([st.lock[1] EXCEPT !.expires_at = t + lease_seconds])])

\* a renewal that refuses a lease that has run out
renew_lease_unexpired_only(st, run_id, lease_seconds, t) ==
    IF st.lock = None THEN Raise
    ELSE IF st.lock[1].run_id # run_id THEN Raise
    ELSE IF st.lock[1].expires_at <= t THEN Raise
    ELSE Return([st EXCEPT
            !.lock = Some([st.lock[1] EXCEPT !.expires_at = t + lease_seconds])])

\* state.renew_lease
renew_lease(st, run_id, lease_seconds, t) ==
    IF st.lock = None THEN Raise
    ELSE IF st.lock[1].run_id # run_id THEN Raise
    ELSE Return([st EXCEPT
            !.lock = Some([st.lock[1] EXCEPT !.expires_at = t + lease_seconds])])

\* state.release_lease
release_lease(st) == [st EXCEPT !.lock = None]

PATCHABLE_FIELDS ==
    {"status", "completed_tasks", "last_run_at", "verification", "executor",
     "blocked_reason", "blocked_severity", "failure_reason", "lock",
     "recovery_notes", "cursor", "verify_quick", "last_error_output_path",
     "git_sha_before", "git_sha_after", "touched_paths"}

\* state._validate_completed_tasks: TRUE when it raises
CompletedTasksInvalid(value, total_tasks) ==
    \E i \in 1..Len(value) :
        value[i] < 1 \/ (total_tasks # 0 /\ value[i] > total_tasks)

\* state._validate_cursor: TRUE when it raises
CursorInvalid(value) ==
    value # None /\ (value[1].task < 0 \/ value[1].step < -1)

NoKwargs == [f \in {} |-> None]

\* a patch whose unknown fields are dropped and whose known fields are applied
apply_state_patch_lenient(st, patch) ==
    LET known == [f \in DOMAIN patch \cap PATCHABLE_FIELDS |-> patch[f]]
    IN  Return([f \in DOMAIN st |->
                  IF f \in DOMAIN known /\ f # "status" THEN known[f] ELSE st[f]])

\* state.apply_state_patch
apply_state_patch(st, patch) ==
    IF DOMAIN patch \ PATCHABLE_FIELDS # {} THEN Raise
    ELSE
    LET r1 == IF "status" \in DOMAIN patch /\ patch.status # st.status
              THEN transition(st, patch.status, NoKwargs)
              ELSE Return(st)
    IN  IF ~r1.ok THEN Raise
        ELSE IF "completed_tasks" \in DOMAIN patch
                /\ CompletedTasksInvalid(patch.completed_tasks, st.total_tasks)
        THEN Raise
        ELSE IF "blocked_severity" \in DOMAIN patch
                /\ patch.blocked_severity # None
                /\ patch.blocked_severity[1] \notin VALID_SEVERITIES
        THEN Raise
        ELSE IF "cursor" \in DOMAIN patch /\ CursorInvalid(patch.cursor)
        THEN Raise
        ELSE Return(
            [f \in DOMAIN st |->
                IF f = "status" \/ f \notin DOMAIN patch THEN r1.st[f]
                ELSE IF f = "completed_tasks"
                     THEN SortedOf(Elems(patch.completed_tasks))
                ELSE patch[f]])

\* ------------------------------------------------------ codex_adapter.py

\* an expiry test that spares the instant of expiry
lease_is_expired_strict(lock, t) == lock.expires_at < t

\* codex_adapter._lease_is_expired
lease_is_expired(lock, t) == lock.expires_at <= t

\* a drift check that never raises
source_drift_ignored(st, src) == FALSE

\* codex_adapter._ensure_no_source_drift / check_drift: TRUE when it raises
source_drift(st, src) == src # None /\ src[1] # st.source_plan_hash

\* a start that does not require the pending status
start_execution_any_status(st, run_id, src, t) ==
    IF source_drift(st, src) THEN Raise
    ELSE LET r1 == acquire_lease(st, run_id, DEFAULT_LOCK_LEASE_SECONDS, t)
         IN  IF ~r1.ok THEN Raise
             ELSE transition(
                    [r1.st EXCEPT !.cursor = Some([task |-> 1, step |-> 0])],
                    "executing",
                    [executor       |-> Some([run_id |-> run_id]),
                     blocked_reason |-> None])

\* codex_adapter.start_execution, inside state_lock
start_execution(st, run_id, src, t) ==
    IF st.status # "pending" THEN Raise
    ELSE IF source_drift(st, src) THEN Raise
    ELSE LET r1 == acquire_lease(st, run_id, DEFAULT_LOCK_LEASE_SECONDS, t)
         IN  IF ~r1.ok THEN Raise
             ELSE transition(
                    [r1.st EXCEPT !.cursor = Some([task |-> 1, step |-> 0])],
                    "executing",
                    [executor       |-> Some([run_id |-> run_id]),
                     blocked_reason |-> None])

\* a resume without the handoff branch
resume_execution_no_handoff(st, run_id, src, t) ==
    IF st.status \notin {"blocked", "failed"} THEN Raise
    ELSE IF source_drift(st, src) THEN Raise
    ELSE LET r1 == acquire_lease(st, run_id, DEFAULT_LOCK_LEASE_SECONDS, t)
         IN  IF ~r1.ok THEN Raise
             ELSE transition(r1.st, "executing",
                    [executor       |-> Some([run_id |-> run_id]),
                     blocked_reason |-> None])

\* a resume that hands an unexpired lease over to any caller, its holder too
resume_execution_self_handoff(st, run_id, src, t) ==
    IF st.status \notin {"blocked", "failed"} THEN Raise
    ELSE IF source_drift(st, src) THEN Raise
    ELSE LET s1 == IF st.lock # None /\ ~lease_is_expired(st.lock[1], t)
                   THEN [st EXCEPT
                           !.recovery_notes = Append(@,
                               [event           |-> "lease_handoff",
                                previous_run_id |-> st.lock[1].run_id,
                                taken_over_at   |-> t,
                                new_run_id      |-> run_id]),
                           !.lock = None]
                   ELSE st
             r1 == acquire_lease(s1, run_id, DEFAULT_LOCK_LEASE_SECONDS, t)
         IN  IF ~r1.ok THEN Raise
             ELSE transition(r1.st, "executing",
                    [executor       |-> Some([run_id |-> run_id]),
                     blocked_reason |-> None])

\* codex_adapter.resume_execution, inside state_lock
resume_execution(st, run_id, src, t) ==
    IF st.status \notin {"blocked", "failed"} THEN Raise
    ELSE IF source_drift(st, src) THEN Raise
    ELSE LET s1 == IF st.lock # None /\ ~lease_is_expired(st.lock[1], t)
                      /\ st.lock[1].run_id # run_id
                   THEN [st EXCEPT
                           !.recovery_notes = Append(@,
                               [event           |-> "lease_handoff",
                                previous_run_id |-> st.lock[1].run_id,
                                taken_over_at   |-> t,
                                new_run_id      |-> run_id]),
                           !.lock = None]
                   ELSE st
             r1 == acquire_lease(s1, run_id, DEFAULT_LOCK_LEASE_SECONDS, t)
         IN  IF ~r1.ok THEN Raise
             ELSE transition(r1.st, "executing",
                    [executor       |-> Some([run_id |-> run_id]),
                     blocked_reason |-> None])

\* complete_task refusing a record that carries no lease
adapter_complete_task_leased(st, task_num) ==
    IF st.status # "executing" \/ st.lock = None THEN Raise
    ELSE Return(complete_task(st, task_num))

\* codex_adapter._ensure_executing; then the operation of state.py
adapter_complete_task(st, task_num) ==
    IF st.status # "executing" THEN Raise ELSE Return(complete_task(st, task_num))

\* advance_step without _ensure_executing
adapter_advance_step_any_status(st, step) == Return(advance_step(st, step))

adapter_advance_step(st, step) ==
    IF st.status # "executing" THEN Raise ELSE Return(advance_step(st, step))

adapter_record_verification(st, tier, command, exit_code, t) ==
    IF st.status # "executing" THEN Raise
    ELSE Return(record_verification(st, tier, command, exit_code, t))

\* codex_adapter.renew_lock
renew_lock(st, run_id, t) == renew_lease(st, run_id, DEFAULT_LOCK_LEASE_SECONDS, t)

\* len(set(state.completed_tasks)) < state.total_tasks
tasks_incomplete(st) == Cardinality(Elems(st.completed_tasks)) < st.total_tasks

\* the check on the verification results left out
has_results_skipped(st) == TRUE

\* any(isinstance(results, list) and len(results) > 0 for ...)
has_results(st) ==
    st.verification # None
    /\ \E tier \in DOMAIN st.verification[1] : Len(st.verification[1][tier]) > 0

\* codex_adapter.mark_verified
mark_verified(st) ==
    IF st.status # "executing" THEN Raise
    ELSE IF tasks_incomplete(st) THEN Raise
    ELSE IF ~has_results(st) THEN Raise
    ELSE LET r1 == transition(st, "verified", NoKwargs)
         IN  IF ~r1.ok THEN Raise ELSE Return(release_lease(r1.st))

\* a mark_failed that refuses a plan with completed tasks
mark_failed_untouched_only(st, reason) ==
    IF st.completed_tasks # << >> THEN Raise
    ELSE LET r1 == transition(st, "failed",
                     [failure_reason |-> Some(reason), blocked_reason |-> None])
         IN  IF ~r1.ok THEN Raise ELSE Return(release_lease(r1.st))

\* codex_adapter.mark_failed
mark_failed(st, reason) ==
    LET r1 == transition(st, "failed",
                [failure_reason |-> Some(reason), blocked_reason |-> None])
    IN  IF ~r1.ok THEN Raise ELSE Return(release_lease(r1.st))

\* mark_blocked releasing the lease, as mark_failed does
mark_blocked_releasing(st, reason, severity) ==
    LET r1 == transition(st, "blocked",
                [blocked_reason   |-> Some(reason),
                 blocked_severity |-> Some(severity),
                 failure_reason   |-> None])
    IN  IF ~r1.ok THEN Raise ELSE Return(release_lease(r1.st))

\* codex_adapter.mark_blocked (the record; the blocker note is a separate file)
mark_blocked(st, reason, severity) ==
    LET sev == IF severity \notin VALID_SEVERITIES THEN "high" ELSE severity
    IN  transition(st, "blocked",
            [blocked_reason   |-> Some(reason),
             blocked_severity |-> Some(sev),
             failure_reason   |-> None])

\* codex_adapter.update_state
update_state(st, patch) == apply_state_patch(st, patch)

\* codex_adapter.rollback_execution: what it writes back to the record it read
rollback_result(st, returncode) ==
    IF returncode # 0 /\ (st.failure_reason = None \/ st.failure_reason[1] = "")
    THEN [st EXCEPT !.failure_reason = Some("Rollback failed")]
    ELSE st

\* ------------------------------------------------- Spec: one plan's record

ALock == [run_id |-> "r1", acquired_at |-> 0,
          expires_at |-> DEFAULT_LOCK_LEASE_SECONDS]

\* keyword arguments callers pass to update_state
StatusPatches == {[status |-> s] : s \in VALID_STATUSES \cup {"bogus"}}

TaskPatches ==
    {[completed_tasks |-> << 2, 1, 2 >>],
     [completed_tasks |-> << TotalTasks + 1 >>],
     [completed_tasks |-> << 0 >>],
     [status |-> "executing", completed_tasks |-> << 0 >>],
     [cursor |-> Some([task |-> 1, step |-> -2])]}

LeasePatches ==
    {[lock |-> None],
     [lock |-> Some(ALock)],
     [status |-> "failed", lock |-> Some(ALock)],
     [recovery_notes |-> << >>]}

OtherPatches ==
    {[unknown_field |-> "x"],
     [blocked_severity |-> Some("bogus")],
     [verification |-> Some([quick |-> << >>])]}

\* the arguments every scenario has
BaseInputs ==
    [runs     |-> {"r1"},
     tasks    |-> 1..TotalTasks,
     steps    |-> {1},
     tiers    |-> {"quick"},
     exits    |-> {0},
     reasons  |-> {"boom"},
     sevs     |-> {"low"},
     \* the source document a call finds: missing, or its content hash
     sources  |-> {None},
     patches  |-> {[status |-> "verified"], [unknown_field |-> "x"]},
     ticks    |-> 0]

Scenarios ==
    {[BaseInputs EXCEPT !.tasks = 1..MaxTaskNum, !.steps = {-1, 1},
                        !.patches = TaskPatches],
     [BaseInputs EXCEPT !.runs = {"r1", "r2"}, !.ticks = MaxTicks],
     [BaseInputs EXCEPT !.runs = {"r1", "r2"}, !.patches = LeasePatches],
     [BaseInputs EXCEPT !.sources = {None, Some("h0"), Some("h1")}],
     [BaseInputs EXCEPT !.tiers = {"quick", "full"}, !.exits = {0, 1},
                        !.reasons = {"", "boom"}, !.sevs = {"low", "bogus"},
                        !.patches = OtherPatches],
     [BaseInputs EXCEPT !.patches = StatusPatches]}

NumResults(st) ==
    IF st.verification = None THEN 0
    ELSE LET d == st.verification[1]
             RECURSIVE Sum(_)
             Sum(T) == IF T = {} THEN 0
                       ELSE LET x == CHOOSE y \in T : TRUE
                            IN  Len(d[x]) + Sum(T \ {x})
         IN  Sum(DOMAIN d)

\* the model keeps at most MaxNotes notes and MaxResults results
InBounds(st) == Len(st.recovery_notes) <= MaxNotes /\ NumResults(st) <= MaxResults

\* one adapter call: its result r is written, or it raised and nothing is
CallWith(op, to, run, src, arg, r) ==
    /\ r.ok => InBounds(r.st)
    /\ state' = IF r.ok THEN r.st ELSE state
    /\ lastOp' = [op |-> op, to |-> to, run |-> run, src |-> src, arg |-> arg,
                  again |-> (lastOp.op = op /\ lastOp.arg = arg /\ lastOp.ok),
                  ok |-> r.ok]
    /\ UNCHANGED << now, inputs, unlock, rollback, scVars, lkVars, wrVars >>

\* a call of start_execution, resume_execution or renew_lock
CallAs(op, to, run, src, r) == CallWith(op, to, run, src, "-", r)

\* a call that names no run and reads no source document
Call(op, to, r) == CallAs(op, to, "-", None, r)

\* such a call, with the task number, step or reason it was given
CallArg(op, to, arg, r) == CallWith(op, to, "-", None, arg, r)

StartExecution ==
    \E run \in inputs.runs, src \in inputs.sources :
        CallAs("start_execution", "executing", run, src,
               start_execution(state, run, src, now))

ResumeExecution ==
    \E run \in inputs.runs, src \in inputs.sources :
        CallAs("resume_execution", "executing", run, src,
               resume_execution(state, run, src, now))

CompleteTask ==
    \E k \in inputs.tasks :
        CallArg("complete_task", "-", k, adapter_complete_task(state, k))

AdvanceStep ==
    \E step \in inputs.steps :
        CallArg("advance_step", "-", step, adapter_advance_step(state, step))

RenewLock ==
    \E run \in inputs.runs :
        CallAs("renew_lock", "-", run, None, renew_lock(state, run, now))

RecordVerification ==
    \E tier \in inputs.tiers, e \in inputs.exits :
        Call("record_verification", "-",
             adapter_record_verification(state, tier, "cmd", e, now))

MarkVerified == Call("mark_verified", "verified", mark_verified(state))

MarkFailed ==
    \E reason \in inputs.reasons :
        CallArg("mark_failed", "failed", reason, mark_failed(state, reason))

\* mark_blocked writes the record inside state_lock and the blocker note after
\* it; mkdir or write_text of the note may raise (plans/_blockers is a file, the
\* reason does not encode), and then the call raises with the record written
MarkBlocked ==
    \E sev \in inputs.sevs, note_written \in BOOLEAN :
        LET r == mark_blocked(state, "wait", sev)
        IN  /\ r.ok => InBounds(r.st)
            /\ state' = IF r.ok THEN r.st ELSE state
            /\ lastOp' = [op |-> "mark_blocked", to |-> "blocked", run |-> "-",
                          src |-> None, arg |-> sev, again |-> FALSE,
                          ok |-> r.ok /\ note_written]
            /\ UNCHANGED << now, inputs, unlock, rollback, scVars, lkVars, wrVars >>

UpdateState ==
    \E patch \in inputs.patches :
        CallArg("update_state",
                IF "status" \in DOMAIN patch THEN patch.status ELSE "-",
                patch, update_state(state, patch))

RollbackExecution ==
    \E rc \in inputs.exits :
        Call("rollback_execution", "-", Return(rollback_result(state, rc)))

\* time passes between two calls
Tick ==
    /\ now < inputs.ticks * TickSeconds
    /\ now' = now + TickSeconds
    /\ lastOp' = [op |-> "tick", to |-> "-", run |-> "-", src |-> None, arg |-> "-",
                  again |-> FALSE, ok |-> TRUE]
    /\ UNCHANGED << state, inputs, unlock, rollback, scVars, lkVars, wrVars >>

Init ==
    /\ state = init_state
    /\ now = 0
    /\ unlock = None
    /\ rollback = None
    /\ lastOp = [op |-> "init_state", to |-> "pending", run |-> "-", src |-> None,
                 arg |-> "-", again |-> FALSE, ok |-> TRUE]
    /\ inputs \in Scenarios
    /\ NoManifest
    /\ NoProcesses
    /\ NoWriter

Next ==
    \/ StartExecution
    \/ ResumeExecution
    \/ CompleteTask
    \/ AdvanceStep
    \/ RenewLock
    \/ RecordVerification
    \/ MarkVerified
    \/ MarkFailed
    \/ MarkBlocked
    \/ UpdateState
    \/ RollbackExecution
    \/ Tick

Spec == Init /\ [][Next]_vars

\* ------------------------------------------------ the eligibility scheduler
\* A string of the scheduler is a sequence of one-character strings, so that
\* str.strip, str.lower and the path operations are computed on it.

UpperCase == << "A", "B", "C", "L", "N", "P" >>
LowerCase == << "a", "b", "c", "l", "n", "p" >>

\* str.lower, one character
LowerChar(c) ==
    IF \E i \in 1..Len(UpperCase) : UpperCase[i] = c
    THEN LowerCase[CHOOSE i \in 1..Len(UpperCase) : UpperCase[i] = c]
    ELSE c

Lower(str) == [i \in 1..Len(str) |-> LowerChar(str[i])]

\* str.strip
RECURSIVE LStrip(_)
LStrip(str) ==
    IF str # << >> /\ Head(str) = " " THEN LStrip(Tail(str)) ELSE str

RECURSIVE RStrip(_)
RStrip(str) ==
    IF str # << >> /\ str[Len(str)] = " "
    THEN RStrip(SubSeq(str, 1, Len(str) - 1)) ELSE str

Strip(str) == RStrip(LStrip(str))

\* str(token).strip().lower()
Normalize(token) == Lower(Strip(token))

Digits == << "0", "1", "2", "3", "4", "5", "6", "7", "8", "9" >>

\* str(n), n >= 0
RECURSIVE Str(_)
Str(n) == IF n < 10 THEN << Digits[n + 1] >>
          ELSE Str(n \div 10) \o << Digits[(n % 10) + 1] >>

\* f"{n:02d}"
Pad2(n) == IF n < 10 THEN << "0" >> \o Str(n) ELSE Str(n)

\* the last index of character c in str, 0 when there is none (str.rfind)
LastIndex(str, c) ==
    LET I == {i \in 1..Len(str) : str[i] = c}
    IN  IF I = {} THEN 0 ELSE CHOOSE i \in I : \A j \in I : j <= i

\* Path(p).name
PathName(path) == SubSeq(path, LastIndex(path, "/") + 1, Len(path))

\* Path(p).stem: the name without its last suffix
PathStem(path) ==
    LET name == PathName(path)
        i == LastIndex(name, ".")
    IN  IF 1 < i /\ i < Len(name) THEN SubSeq(name, 1, i - 1) ELSE name

\* the tokens a plan answers to (codex_adapter._dependencies_verified)
EntryTokens(other) ==
    {other.plan_id,
     Str(other.plan_number),
     other.phase \o << ":" >> \o Str(other.plan_number),
     other.phase \o << "-" >> \o Pad2(other.plan_number),
     other.source_path,
     PathName(other.source_path),
     PathStem(other.source_path)}

Entries(mf) == {mf[i] : i \in 1..Len(mf)}

\* a lookup that keeps one plan id per token
Lookup_first_match(mf, token) ==
    LET S == {o \in Entries(mf) :
                \E t \in EntryTokens(o) : Normalize(t) # << >> /\ Normalize(t) = token}
    IN  IF S = {} THEN {} ELSE {(CHOOSE o \in S : TRUE).plan_id}

\* lookup.get(token): the plan ids whose normalized tokens include token
Lookup(mf, token) ==
    {other.plan_id : other \in
        {o \in Entries(mf) :
            \E t \in EntryTokens(o) : Normalize(t) # << >> /\ Normalize(t) = token}}

\* codex_adapter._current_status_by_plan
current_status_by_plan(mf, st) ==
    [pid \in {e.plan_id : e \in Entries(mf)} |->
        IF st[pid] # None THEN st[pid][1]
        ELSE LET e == CHOOSE x \in Entries(mf) : x.plan_id = pid
             IN  IF e.status # "" THEN e.status ELSE "no-state"]

\* a barrier that looks at the wave just below only
lower_waves_verified_previous_only(entry, mf, statuses) ==
    \A other \in Entries(mf) :
        ~(other.wave = entry.wave - 1 /\ statuses[other.plan_id] # "verified")

\* a barrier that also waits for the plans of the entry's own wave
lower_waves_verified_inclusive(entry, mf, statuses) ==
    \A other \in Entries(mf) :
        ~(other.wave <= entry.wave /\ statuses[other.plan_id] # "verified")

\* codex_adapter._lower_waves_verified
lower_waves_verified(entry, mf, statuses) ==
    \A other \in Entries(mf) :
        ~(other.wave < entry.wave /\ statuses[other.plan_id] # "verified")

\* codex_adapter._dependencies_verified: "yes", "no", or "raise" (ambiguous)
RECURSIVE DepsFrom(_, _, _, _)
DepsFrom(i, entry, mf, statuses) ==
    IF i > Len(entry.depends_on) THEN "yes"
    ELSE LET matched == Lookup(mf, Normalize(entry.depends_on[i]))
         IN  IF matched = {} THEN "no"
             ELSE IF Cardinality(matched) > 1 THEN "raise"
             ELSE IF statuses[CHOOSE pid \in matched : TRUE] # "verified" THEN "no"
             ELSE DepsFrom(i + 1, entry, mf, statuses)

\* a dependency check that resolves the tokens and ignores the statuses
dependencies_verified_unchecked(entry, mf, statuses) ==
    IF entry.depends_on = << >> THEN "yes"
    ELSE DepsFrom(1, entry, mf, [pid \in DOMAIN statuses |-> "verified"])

dependencies_verified(entry, mf, statuses) ==
    IF entry.depends_on = << >> THEN "yes"
    ELSE DepsFrom(1, entry, mf, statuses)

\* a loop where a plan that matches a given filter skips the wave barrier
RECURSIVE EligibleFrom_filter_instead(_, _, _, _, _)
EligibleFrom_filter_instead(i, mf, statuses, wave, plan_id) ==
    IF i > Len(mf) THEN [ok |-> TRUE, plans |-> << >>]
    ELSE
    LET entry == mf[i]
        rest == EligibleFrom_filter_instead(i + 1, mf, statuses, wave, plan_id)
        filtered == plan_id # << >> \/ wave # None
    IN  IF statuses[entry.plan_id] # "pending" THEN rest
        ELSE IF plan_id # << >> /\ entry.plan_id # plan_id THEN rest
        ELSE IF wave # None /\ entry.wave # wave[1] THEN rest
        ELSE IF ~filtered /\ ~lower_waves_verified(entry, mf, statuses) THEN rest
        ELSE LET d == dependencies_verified(entry, mf, statuses)
             IN  IF d = "raise" THEN [ok |-> FALSE, plans |-> << >>]
                 ELSE IF d = "no" THEN rest
                 ELSE IF ~rest.ok THEN rest
                 ELSE [ok |-> TRUE, plans |-> << entry.plan_id >> \o rest.plans]

\* the loop of get_eligible_plans from entry i of the manifest on
RECURSIVE EligibleFrom(_, _, _, _, _)
EligibleFrom(i, mf, statuses, wave, plan_id) ==
    IF i > Len(mf) THEN [ok |-> TRUE, plans |-> << >>]
    ELSE
    LET entry == mf[i]
        rest == EligibleFrom(i + 1, mf, statuses, wave, plan_id)
    IN  IF statuses[entry.plan_id] # "pending" THEN rest
        ELSE IF plan_id # << >> /\ entry.plan_id # plan_id THEN rest
        ELSE IF wave # None /\ entry.wave # wave[1] THEN rest
        ELSE IF ~lower_waves_verified(entry, mf, statuses) THEN rest
        ELSE LET d == dependencies_verified(entry, mf, statuses)
             IN  IF d = "raise" THEN [ok |-> FALSE, plans |-> << >>]
                 ELSE IF d = "no" THEN rest
                 ELSE IF ~rest.ok THEN rest
                 ELSE [ok |-> TRUE, plans |-> << entry.plan_id >> \o rest.plans]

\* codex_adapter.get_eligible_plans
get_eligible_plans(mf, st, wave, plan_id) ==
    EligibleFrom(1, mf, current_status_by_plan(mf, st), wave, plan_id)

\* codex_adapter.get_next_plan
get_next_plan(mf, st) ==
    LET r == get_eligible_plans(mf, st, None, << >>)
    IN  IF ~r.ok THEN [ok |-> FALSE, plan |-> None]
        ELSE [ok |-> TRUE,
              plan |-> IF r.plans = << >> THEN None ELSE Some(r.plans[1])]

\* ------------------------------------- SpecSched: a manifest and its records

\* manifest.generate_manifest: the priority an entry is sorted by
Priority(wave, phase_num, plan_num) == wave * 1000 + phase_num * 10 + plan_num

\* the source file of plan plan_num of phase phase_num: "NN-MM-PLAN.md"
PlanFile(phase_num, plan_num) ==
    Pad2(phase_num) \o << "-" >> \o Pad2(plan_num)
        \o << "-", "P", "L", "A", "N", ".", "m", "d" >>

SourcePath(phase_num, plan_num) == << "p", "/" >> \o PlanFile(phase_num, plan_num)

\* the ManifestEntry generate_manifest builds for a plan with a fresh record
Entry(id, wave, phase_num, plan_num, deps) ==
    [plan_id |-> id, wave |-> wave, phase |-> Pad2(phase_num),
     plan_number |-> plan_num,
     priority |-> Priority(wave, phase_num, plan_num),
     source_path |-> SourcePath(phase_num, plan_num),
     depends_on |-> deps, status |-> "pending"]

PlanA == << "a" >>
PlanB == << "b" >>
PlanC == << "c" >>
NoDeps == << >>

\* the manifests of the behaviours, each in priority order
ManifestPool ==
    { \* plan number 1 is both a and b
      << Entry(PlanA, 1, 1, 1, NoDeps), Entry(PlanB, 1, 2, 1, NoDeps),
         Entry(PlanC, 1, 2, 2, << << "1" >> >>) >>,
      \* b's token matches a and b itself; b and c wait for wave 1
      << Entry(PlanA, 1, 1, 1, NoDeps), Entry(PlanB, 2, 2, 1, << << "1" >> >>),
         Entry(PlanC, 2, 2, 2, << << " ", "A", " " >> >>) >>,
      \* b's token is blank; c names a, then the number a and c share
      << Entry(PlanA, 1, 1, 1, NoDeps), Entry(PlanB, 1, 1, 2, << << " " >> >>),
         Entry(PlanC, 1, 2, 1, << << "a" >>, << "1" >> >>) >>,
      \* three waves; dependencies by path, stem, phase:number, phase-number
      << Entry(PlanA, 1, 1, 1, NoDeps),
         Entry(PlanB, 2, 1, 2,
               << SourcePath(1, 1), << "0", "1", "-", "0", "1", "-", "P", "L", "A", "N" >> >>),
         Entry(PlanC, 3, 1, 3, << << "0", "1", ":", "2" >>,
                                  << "0", "1", "-", "0", "2" >> >>) >>,
      \* a waits for a later entry, by file name; c names b, then no plan
      << Entry(PlanA, 1, 1, 1, << PlanFile(1, 2) >>), Entry(PlanB, 1, 1, 2, NoDeps),
         Entry(PlanC, 1, 1, 3, << << "2" >>, << "z" >> >>) >> }

\* the manifest of the behaviours where cmd_archive runs
ArchiveManifest ==
    << Entry(PlanA, 1, 1, 1, NoDeps), Entry(PlanB, 2, 2, 1, << << "1" >> >>) >>

\* plan_id="" (or None): no plan filter
NoPlan == << >>

AllFilters == [wave : {None, Some(1), Some(2)}, plan_id : {NoPlan, PlanA, PlanC}]

\* what a behaviour of SpecSched is given: its manifest, the filters its
\* callers pass, and whether cmd_archive and the status sync run
SchedScenarios ==
    {[manifests |-> ManifestPool, filters |-> AllFilters,
      archivable |-> {}, forces |-> {FALSE}, syncs |-> FALSE],
     [manifests |-> {ArchiveManifest},
      filters |-> {[wave |-> None, plan_id |-> NoPlan]},
      archivable |-> {PlanA, PlanB}, forces |-> {FALSE, TRUE}, syncs |-> TRUE]}

\* an adapter operation moves the status of one plan's record (state.transition)
PlanTransition ==
    \E pid \in DOMAIN store, to \in VALID_STATUSES :
        /\ store[pid] # None
        /\ to \in VALID_TRANSITIONS[store[pid][1]]
        /\ store' = [store EXCEPT ![pid] = Some(to)]
        /\ schedOut' = None
        /\ UNCHANGED << manifest, archived, archiving, smVars, lkVars, wrVars >>

\* cli._sync_manifest_status
SyncManifestStatus ==
    /\ inputs.syncs
    /\ manifest' = [i \in 1..Len(manifest) |->
                      [manifest[i] EXCEPT !.status =
                          IF store[manifest[i].plan_id] # None
                          THEN store[manifest[i].plan_id][1] ELSE "no-state"]]
    /\ manifest' # manifest
    /\ schedOut' = None
    /\ UNCHANGED << store, archived, archiving, smVars, lkVars, wrVars >>

\* cli.cmd_archive up to the move (or the deletion) of the state record
ArchiveMove ==
    \E pid \in inputs.archivable, force \in inputs.forces :
        /\ archiving = None
        /\ \E e \in Entries(manifest) :
              e.plan_id = pid /\ (e.status = "verified" \/ force)
        /\ archiving' = Some([plan_id |-> pid, manifest |-> manifest])
        /\ store' = [store EXCEPT ![pid] = None]
        /\ archived' = [archived EXCEPT ![pid] =
                          IF store[pid] # None THEN store[pid][1] ELSE @]
        /\ schedOut' = None
        /\ UNCHANGED << manifest, smVars, lkVars, wrVars >>

\* cli.cmd_archive, its end: the manifest it read, without the plan, is written
ArchiveWriteManifest ==
    /\ archiving # None
    /\ manifest' = SelectSeq(archiving[1].manifest,
                             LAMBDA e : e.plan_id # archiving[1].plan_id)
    /\ archiving' = None
    /\ schedOut' = None
    /\ UNCHANGED << store, archived, smVars, lkVars, wrVars >>

\* codex_adapter.get_eligible_plans: the manifest and the records are read
GetEligiblePlans ==
    \E f \in inputs.filters :
        LET r == get_eligible_plans(manifest, store, f.wave, f.plan_id)
        IN  /\ schedOut' = Some([op |-> "get_eligible_plans", wave |-> f.wave,
                                 plan_id |-> f.plan_id, ok |-> r.ok,
                                 plans |-> r.plans])
            /\ schedOut' # schedOut
            /\ UNCHANGED << manifest, store, archived, archiving, smVars, lkVars, wrVars >>

\* codex_adapter.get_next_plan
GetNextPlan ==
    LET r == get_next_plan(manifest, store)
    IN  /\ schedOut' = Some([op |-> "get_next_plan", wave |-> None,
                             plan_id |-> NoPlan, ok |-> r.ok, plans |-> r.plan])
        /\ schedOut' # schedOut
        /\ UNCHANGED << manifest, store, archived, archiving, smVars, lkVars, wrVars >>

\* generate_manifest has written the manifest and a pending record per plan
InitSched ==
    /\ inputs \in SchedScenarios
    /\ manifest \in inputs.manifests
    /\ store = [pid \in {e.plan_id : e \in Entries(manifest)} |-> Some("pending")]
    /\ archived = [pid \in DOMAIN store |-> "-"]
    /\ archiving = None
    /\ schedOut = None
    /\ state = init_state
    /\ now = 0
    /\ unlock = None
    /\ rollback = None
    /\ lastOp = [op |-> "init_state", to |-> "pending", run |-> "-", src |-> None,
                 arg |-> "-", again |-> FALSE, ok |-> TRUE]
    /\ NoProcesses
    /\ NoWriter

NextSched ==
    \/ PlanTransition
    \/ SyncManifestStatus
    \/ ArchiveMove
    \/ ArchiveWriteManifest
    \/ GetEligiblePlans
    \/ GetNextPlan

SpecSched == InitSched /\ [][NextSched]_vars

\* ------------------- SpecExecute: cli.cmd_execute until every plan is done

\* the manifests cmd_execute is run on: those of SpecSched, and
ExecuteManifests ==
    ManifestPool \cup
    { \* a, of wave 1, depends on b, of wave 2
      << Entry(PlanA, 1, 1, 1, << PlanB >>), Entry(PlanB, 2, 1, 2, NoDeps),
         Entry(PlanC, 2, 1, 3, NoDeps) >>,
      \* one wave; c depends on a and on b
      << Entry(PlanA, 1, 1, 1, NoDeps), Entry(PlanB, 1, 1, 2, NoDeps),
         Entry(PlanC, 1, 1, 3, << PlanA, PlanB >>) >>,
      \* two waves; b depends on c, a later entry of its wave
      << Entry(PlanA, 1, 1, 1, NoDeps), Entry(PlanB, 2, 1, 2, << PlanC >>),
         Entry(PlanC, 2, 1, 3, << PlanA >>) >>,
      \* a and b depend on each other
      << Entry(PlanA, 1, 1, 1, << PlanB >>), Entry(PlanB, 1, 1, 2, << PlanA >>),
         Entry(PlanC, 1, 1, 3, NoDeps) >>,
      \* c depends on itself
      << Entry(PlanA, 1, 1, 1, NoDeps), Entry(PlanB, 1, 1, 2, NoDeps),
         Entry(PlanC, 2, 1, 3, << PlanC >>) >>,
      \* one wave, no dependency
      << Entry(PlanA, 1, 1, 1, NoDeps), Entry(PlanB, 1, 1, 2, NoDeps),
         Entry(PlanC, 1, 1, 3, NoDeps) >> }

ExecuteScenario ==
    [manifests |-> ExecuteManifests,
     filters |-> {[wave |-> None, plan_id |-> NoPlan]},
     archivable |-> {}, forces |-> {FALSE}, syncs |-> FALSE]

\* the records after start_execution on the first n plans of a list
RECURSIVE StartAll(_, _, _)
StartAll(st, plans, n) ==
    IF n = 0 THEN st
    ELSE [StartAll(st, plans, n - 1) EXCEPT ![plans[n]] = Some("executing")]

\* cli.cmd_execute without filters: the first max_plans eligible plans are
\* started; with no eligible plan, or an ambiguous dependency, nothing is
CmdExecute ==
    \E eligible \in {get_eligible_plans(manifest, store, None, NoPlan)} :
    \E max_plans \in 1..Len(manifest) :
        LET started == IF max_plans < Len(eligible.plans)
                       THEN max_plans ELSE Len(eligible.plans)
        IN  /\ eligible.ok
            /\ eligible.plans # << >>
            /\ store' = StartAll(store, eligible.plans, started)
            /\ schedOut' = None
            /\ UNCHANGED << manifest, archived, archiving, smVars, lkVars, wrVars >>

\* the executor of a started plan finishes it: codex_adapter.mark_verified
MarkVerifiedPlan ==
    \E pid \in DOMAIN store :
        /\ store[pid] = Some("executing")
        /\ store' = [store EXCEPT ![pid] = Some("verified")]
        /\ schedOut' = None
        /\ UNCHANGED << manifest, archived, archiving, smVars, lkVars, wrVars >>

InitExecute ==
    /\ inputs = ExecuteScenario
    /\ manifest \in inputs.manifests
    /\ store = [pid \in {e.plan_id : e \in Entries(manifest)} |-> Some("pending")]
    /\ archived = [pid \in DOMAIN store |-> "-"]
    /\ archiving = None
    /\ schedOut = None
    /\ state = init_state
    /\ now = 0
    /\ unlock = None
    /\ rollback = None
    /\ lastOp = [op |-> "init_state", to |-> "pending", run |-> "-", src |-> None,
                 arg |-> "-", again |-> FALSE, ok |-> TRUE]
    /\ NoProcesses
    /\ NoWriter

NextExecute ==
    \/ GetEligiblePlans
    \/ CmdExecute
    \/ MarkVerifiedPlan

\* cmd_execute is run again and again, and every started plan is finished
SpecExecute ==
    /\ InitExecute
    /\ [][NextExecute]_vars
    /\ WF_vars(CmdExecute)
    /\ WF_vars(MarkVerifiedPlan)

\* ------------------------------ SpecLock: processes on one plan's record
\* Each process runs calls of complete_task (state_lock, read_state, the
\* mutation, write_state, _release_lock) and of rollback_execution, one file
\* system operation per step.

Procs == {"p1", "p2"}

\* the task each process completes
TaskOf == [p \in Procs |-> IF p = "p1" THEN 1 ELSE 2]

\* the run id each process passes to start_execution
RunOf == [p \in Procs |-> IF p = "p1" THEN "r1" ELSE "r2"]

\* returncodes of the rollback command
ReturnCodes == {0, 1}

\* state_lock(timeout_seconds=5.0)
LOCK_TIMEOUT_SECONDS == 5

\* uuid4 of the current call of process p
OwnerId(p) == << p, call[p].n >>

\* state._is_stale_lock on the lock file as it is at time t
is_stale_lock(file, lease_seconds, t) ==
    IF file = None THEN FALSE
    ELSE IF file[1].payload # None THEN t >= file[1].payload[1].expires_at
    ELSE t - file[1].mtime >= lease_seconds

\* a call begins: state_lock computes its deadline and its owner id
BeginCompleteTask(p) ==
    /\ pc[p] = "idle"
    /\ call[p].n < MaxCalls
    /\ call' = [call EXCEPT ![p] = [n |-> @.n + 1, op |-> "complete_task",
                                    deadline |-> now + LOCK_TIMEOUT_SECONDS,
                                    ok |-> FALSE]]
    /\ pc' = [pc EXCEPT ![p] = "open"]
    /\ UNCHANGED << lockFile, localState, expires, returned, smVars, scVars, wrVars >>

\* os.open(lock_path, O_CREAT | O_EXCL | O_WRONLY)
OpenLock(p) ==
    /\ pc[p] = "open"
    /\ IF lockFile = None
       THEN /\ lockFile' = Some([ino |-> OwnerId(p), payload |-> None, mtime |-> now])
            /\ pc' = [pc EXCEPT ![p] = "write"]
       ELSE /\ pc' = [pc EXCEPT ![p] = "exists"]
            /\ UNCHANGED lockFile
    /\ UNCHANGED << call, localState, expires, returned, smVars, scVars, wrVars >>

\* os.write(fd, payload): into the file the process created, linked or not
WritePayload(p) ==
    /\ pc[p] = "write"
    /\ lockFile' =
          IF lockFile # None /\ lockFile[1].ino = OwnerId(p)
          THEN Some([ino |-> OwnerId(p),
                     payload |-> Some([owner_id |-> OwnerId(p),
                                       expires_at |-> now + DEFAULT_LOCK_LEASE_SECONDS]),
                     mtime |-> now])
          ELSE lockFile
    /\ expires' = [expires EXCEPT ![p] = now + DEFAULT_LOCK_LEASE_SECONDS]
    /\ pc' = [pc EXCEPT ![p] = "cs_read"]
    /\ UNCHANGED << call, localState, returned, smVars, scVars, wrVars >>

\* a loop that never looks at its deadline
CheckStale_no_deadline(p) ==
    /\ pc[p] = "exists"
    /\ pc' = [pc EXCEPT ![p] =
                IF is_stale_lock(lockFile, DEFAULT_LOCK_LEASE_SECONDS, now) THEN "break"
                ELSE "open"]
    /\ UNCHANGED << lockFile, call, localState, expires, returned, smVars, scVars, wrVars >>

\* except FileExistsError: _is_stale_lock, then the deadline
CheckStale(p) ==
    /\ pc[p] = "exists"
    /\ pc' = [pc EXCEPT ![p] =
                IF is_stale_lock(lockFile, DEFAULT_LOCK_LEASE_SECONDS, now) THEN "break"
                ELSE IF now >= call[p].deadline THEN "idle"
                ELSE "open"]
    /\ UNCHANGED << lockFile, call, localState, expires, returned, smVars, scVars, wrVars >>

\* state._break_stale_lock
BreakStaleLock(p) ==
    /\ pc[p] = "break"
    /\ lockFile' = None
    /\ pc' = [pc EXCEPT ![p] = "open"]
    /\ UNCHANGED << call, localState, expires, returned, smVars, scVars, wrVars >>

\* read_state under the lock
ReadState(p) ==
    /\ pc[p] = "cs_read"
    /\ localState' = [localState EXCEPT ![p] = state]
    /\ pc' = [pc EXCEPT ![p] = "cs_write"]
    /\ UNCHANGED << lockFile, call, expires, returned, smVars, scVars, wrVars >>

\* the mutation and write_state under the lock
WriteState(p) ==
    /\ pc[p] = "cs_write"
    /\ LET r == IF call[p].op = "start_execution"
                THEN start_execution(localState[p], RunOf[p], None, now)
                ELSE adapter_complete_task(localState[p], TaskOf[p])
       IN  /\ state' = IF r.ok THEN r.st ELSE state
           /\ call' = [call EXCEPT ![p].ok = r.ok]
    /\ pc' = [pc EXCEPT ![p] = "release"]
    /\ UNCHANGED << lockFile, localState, expires, returned,
                    now, lastOp, inputs, unlock, rollback, scVars, wrVars >>

\* the call of process p ends
Finish(p) ==
    /\ pc' = [pc EXCEPT ![p] = "idle"]
    /\ returned' = [returned EXCEPT ![p] =
                      IF call[p].ok /\ call[p].op = "complete_task"
                      THEN @ \cup {TaskOf[p]} ELSE @]

\* state._release_lock: _read_lock_payload and the owner check
ReleaseRead(p) ==
    /\ pc[p] = "release"
    /\ IF /\ lockFile # None
          /\ lockFile[1].payload # None
          /\ lockFile[1].payload[1].owner_id # OwnerId(p)
       THEN Finish(p)
       ELSE pc' = [pc EXCEPT ![p] = "unlink"] /\ UNCHANGED returned
    /\ UNCHANGED << lockFile, call, localState, expires, smVars, scVars, wrVars >>

\* state._release_lock: lock_path.unlink()
ReleaseUnlink(p) ==
    /\ pc[p] = "unlink"
    /\ lockFile' = None
    /\ Finish(p)
    /\ UNCHANGED << call, localState, expires, smVars, scVars, wrVars >>

\* rollback_execution begins: read_state, under no lock
RollbackRead(p) ==
    /\ pc[p] = "idle"
    /\ call[p].n < MaxCalls
    /\ call' = [call EXCEPT ![p] = [n |-> @.n + 1, op |-> "rollback_execution",
                                    deadline |-> 0, ok |-> FALSE]]
    /\ localState' = [localState EXCEPT ![p] = state]
    /\ pc' = [pc EXCEPT ![p] = "rb_write"]
    /\ UNCHANGED << lockFile, expires, returned, smVars, scVars, wrVars >>

\* rollback_execution after the command ran: write_state, under no lock
RollbackWrite(p) ==
    /\ pc[p] = "rb_write"
    /\ \E rc \in ReturnCodes : state' = rollback_result(localState[p], rc)
    /\ pc' = [pc EXCEPT ![p] = "idle"]
    /\ UNCHANGED << lockFile, call, localState, expires, returned,
                    now, lastOp, inputs, unlock, rollback, scVars, wrVars >>

\* time passes: by the length of a lease, or by the length of a lock timeout
LockTick ==
    /\ \/ /\ now < LockMaxTicks * TickSeconds
          /\ now' = now + TickSeconds
       \/ /\ now % TickSeconds < MaxShortTicks * LOCK_TIMEOUT_SECONDS
          /\ now' = now + LOCK_TIMEOUT_SECONDS
    /\ UNCHANGED << state, lastOp, inputs, unlock, rollback, scVars, lkVars, wrVars >>

\* the plan is executing (start_execution returned) and no call is running
InitLock ==
    /\ state = start_execution(init_state, "r1", None, 0).st
    /\ now = 0
    /\ unlock = None
    /\ rollback = None
    /\ lastOp = [op |-> "start_execution", to |-> "executing", run |-> "r1",
                 src |-> None, arg |-> "-", again |-> FALSE, ok |-> TRUE]
    /\ inputs = BaseInputs
    /\ lockFile = None
    /\ pc = [p \in Procs |-> "idle"]
    /\ call = [p \in Procs |-> [n |-> 0, op |-> "-", deadline |-> 0, ok |-> FALSE]]
    /\ localState = [p \in Procs |-> state]
    /\ expires = [p \in Procs |-> 0]
    /\ returned = [p \in Procs |-> {}]
    /\ NoManifest
    /\ NoWriter

NextLock ==
    \/ \E p \in Procs :
          \/ BeginCompleteTask(p)
          \/ OpenLock(p)
          \/ WritePayload(p)
          \/ CheckStale(p)
          \/ BreakStaleLock(p)
          \/ ReadState(p)
          \/ WriteState(p)
          \/ ReleaseRead(p)
          \/ ReleaseUnlink(p)
          \/ RollbackRead(p)
          \/ RollbackWrite(p)
    \/ LockTick

SpecLock == InitLock /\ [][NextLock]_vars

\* ------------------ SpecStart: processes starting the same pending plan
\* a call of start_execution begins: state_lock computes deadline and owner id
BeginStartExecution(p) ==
    /\ pc[p] = "idle"
    /\ call[p].n < MaxCalls
    /\ call' = [call EXCEPT ![p] = [n |-> @.n + 1, op |-> "start_execution",
                                    deadline |-> now + LOCK_TIMEOUT_SECONDS,
                                    ok |-> FALSE]]
    /\ pc' = [pc EXCEPT ![p] = "open"]
    /\ UNCHANGED << lockFile, localState, expires, returned, smVars, scVars,
                    wrVars >>

\* the record is pending (init_state wrote it) and no call is running
InitStart ==
    /\ state = init_state
    /\ now = 0
    /\ unlock = None
    /\ rollback = None
    /\ lastOp = [op |-> "init_state", to |-> "pending", run |-> "-", src |-> None,
                 arg |-> "-", again |-> FALSE, ok |-> TRUE]
    /\ inputs = BaseInputs
    /\ lockFile = None
    /\ pc = [p \in Procs |-> "idle"]
    /\ call = [p \in Procs |-> [n |-> 0, op |-> "-", deadline |-> 0, ok |-> FALSE]]
    /\ localState = [p \in Procs |-> state]
    /\ expires = [p \in Procs |-> 0]
    /\ returned = [p \in Procs |-> {}]
    /\ NoManifest
    /\ NoWriter

NextStart ==
    \/ \E p \in Procs :
          \/ BeginStartExecution(p)
          \/ OpenLock(p)
          \/ WritePayload(p)
          \/ CheckStale(p)
          \/ BreakStaleLock(p)
          \/ ReadState(p)
          \/ WriteState(p)
          \/ ReleaseRead(p)
          \/ ReleaseUnlink(p)
    \/ LockTick

SpecStart == InitStart /\ [][NextStart]_vars

\* the steps of process p's state_lock loop: open, stale check, break
AcquireStep(p) == OpenLock(p) \/ CheckStale(p) \/ BreakStaleLock(p)

\* SpecLock with a running clock and acquirers that keep running: the loop of
\* state_lock has no blocking call besides sleep(retry_interval_seconds)
SpecLockFair ==
    /\ SpecLock
    /\ WF_vars(LockTick)
    /\ \A p \in Procs : WF_vars(AcquireStep(p))

\* ------------------------- SpecWrite: write_state, one system call per step
\* A writer process runs operations on the record; each reaches write_state
\* with the record it built. The process may die between any two steps. A
\* reader calls read_state at any moment. Temporary files a dead writer left
\* behind are not kept: mkstemp gives every call a fresh name and nothing
\* reads them.

\* the records complete_task and mark_failed hand to write_state
BuiltRecords(st) ==
    { r.st : r \in { x \in {adapter_complete_task(st, t) : t \in 1..MaxTaskNum}
                            \cup {mark_failed(st, "boom")} : x.ok } }

\* an operation calls write_state(state_path, new)
WriteStateBegin ==
    /\ writer.pc = "idle"
    /\ \E new \in BuiltRecords(state) :
          /\ InBounds(new)
          /\ writer' = [pc |-> "mkstemp", old |-> state, new |-> new, died |-> FALSE]
    /\ UNCHANGED << stateIntact, tmpFile, lastRead, smVars, scVars, lkVars >>

\* tempfile.mkstemp(dir=state_path.parent): a new, empty file
Mkstemp ==
    /\ writer.pc = "mkstemp"
    /\ tmpFile' = Some([rec |-> writer.new, bytes |-> "none"])
    /\ writer' = [writer EXCEPT !.pc = "write"]
    /\ UNCHANGED << stateIntact, lastRead, smVars, scVars, lkVars >>

\* handle.write(payload): the first part of the payload reaches the file
WriteTmp ==
    /\ writer.pc = "write"
    /\ tmpFile' = Some([tmpFile[1] EXCEPT !.bytes = "part"])
    /\ writer' = [writer EXCEPT !.pc = "flush"]
    /\ UNCHANGED << stateIntact, lastRead, smVars, scVars, lkVars >>

\* handle.flush(), os.fsync(), close: the whole payload is in the file
FlushTmp ==
    /\ writer.pc = "flush"
    /\ tmpFile' = Some([tmpFile[1] EXCEPT !.bytes = "all"])
    /\ writer' = [writer EXCEPT !.pc = "replace"]
    /\ UNCHANGED << stateIntact, lastRead, smVars, scVars, lkVars >>

\* a rename issued while the payload is still being written
OsReplace_unflushed ==
    /\ writer.pc \in {"flush", "replace"}
    /\ state' = tmpFile[1].rec
    /\ stateIntact' = (tmpFile[1].bytes = "all")
    /\ tmpFile' = None
    /\ writer' = [writer EXCEPT !.pc = "finally"]
    /\ UNCHANGED << lastRead, now, lastOp, inputs, unlock, rollback, scVars, lkVars >>

\* os.replace(tmp_path, state_path): the path now names the temporary file
OsReplace ==
    /\ writer.pc = "replace"
    /\ state' = tmpFile[1].rec
    /\ stateIntact' = (tmpFile[1].bytes = "all")
    /\ tmpFile' = None
    /\ writer' = [writer EXCEPT !.pc = "finally"]
    /\ UNCHANGED << lastRead, now, lastOp, inputs, unlock, rollback, scVars, lkVars >>

\* writing or flushing raises (no space left): the finally clause is next
WriteRaises ==
    /\ writer.pc \in {"write", "flush"}
    /\ writer' = [writer EXCEPT !.pc = "finally"]
    /\ UNCHANGED << stateIntact, tmpFile, lastRead, smVars, scVars, lkVars >>

\* finally: os.unlink(tmp_path) if it still exists; write_state returns or raises
UnlinkTmp ==
    /\ writer.pc = "finally"
    /\ tmpFile' = None
    /\ writer' = [writer EXCEPT !.pc = "idle"]
    /\ UNCHANGED << stateIntact, lastRead, smVars, scVars, lkVars >>

\* the writing process dies between two steps of write_state
WriterCrash ==
    /\ writer.pc \notin {"idle"}
    /\ writer' = [writer EXCEPT !.pc = "idle", !.died = TRUE]
    /\ tmpFile' = None
    /\ UNCHANGED << stateIntact, lastRead, smVars, scVars, lkVars >>

\* state.read_state by another process: the record, or ValueError on bytes
\* that are not a complete record
ReadStateFile ==
    /\ lastRead' = Some([ok  |-> stateIntact,
                         rec |-> state,
                         old |-> writer.old,
                         new |-> writer.new,
                         at  |-> writer.pc,
                         died |-> writer.died])
    /\ lastRead' # lastRead
    /\ UNCHANGED << stateIntact, tmpFile, writer, smVars, scVars, lkVars >>

\* the plan is executing (start_execution returned) and nobody is writing
InitWrite ==
    /\ state = start_execution(init_state, "r1", None, 0).st
    /\ now = 0
    /\ unlock = None
    /\ rollback = None
    /\ lastOp = [op |-> "start_execution", to |-> "executing", run |-> "r1",
                 src |-> None, arg |-> "-", again |-> FALSE, ok |-> TRUE]
    /\ inputs = BaseInputs
    /\ stateIntact = TRUE
    /\ tmpFile = None
    /\ writer = [pc |-> "idle", old |-> state, new |-> state, died |-> FALSE]
    /\ lastRead = None
    /\ NoManifest
    /\ NoProcesses

NextWrite ==
    \/ WriteStateBegin
    \/ Mkstemp
    \/ WriteTmp
    \/ FlushTmp
    \/ OsReplace
    \/ WriteRaises
    \/ UnlinkTmp
    \/ WriterCrash
    \/ ReadStateFile

SpecWrite == InitWrite /\ [][NextWrite]_vars

\* ------------------------------------------ SpecUnlock: cli.cmd_unlock
\* cmd_unlock reads the record under no lock, calls mark_failed when it read
\* executing, then resume_execution; each of the two is a critical section of
\* its own, and the calls of other processes run between them.

\* the run id resume_execution draws (uuid4) when it is given no executor_info
OperatorRun == "operator"

\* the callers next to the operator: one run, and a lease that can expire
UnlockInputs ==
    [BaseInputs EXCEPT !.ticks = MaxTicks,
                       !.patches = {[lock |-> None], [status |-> "failed"]}]

UnlockAt(at) == unlock # None /\ unlock[1].pc = at

\* the flags are checked, then read_state(state_path), outside state_lock
UnlockBegin ==
    /\ unlock = None
    /\ \E force \in BOOLEAN, yes \in BOOLEAN :
         unlock' = Some([pc   |-> IF ~force \/ ~yes THEN "done"
                                  ELSE IF state.status = "executing"
                                       THEN "mark_failed" ELSE "resume",
                         read |-> IF ~force \/ ~yes THEN "-" ELSE state.status,
                         rc   |-> IF ~force \/ ~yes THEN 1 ELSE 0])
    /\ UNCHANGED << state, now, lastOp, inputs, rollback, scVars, lkVars, wrVars >>

\* the lease is cleared and the status is left as it is
UnlockMarkFailed_lease_only ==
    /\ UnlockAt("mark_failed")
    /\ state' = release_lease(state)
    /\ unlock' = Some([unlock[1] EXCEPT !.pc = "resume"])
    /\ lastOp' = [op |-> "mark_failed", to |-> "failed", run |-> "-", src |-> None,
                  arg |-> "manual unlock", again |-> FALSE, ok |-> TRUE]
    /\ UNCHANGED << now, inputs, rollback, scVars, lkVars, wrVars >>

\* codex_adapter.mark_failed(state_path, "manual unlock: stale lease released");
\* a ValueError ends the command with exit code 1
UnlockMarkFailed ==
    /\ UnlockAt("mark_failed")
    /\ LET r == mark_failed(state, "manual unlock")
       IN  /\ state' = IF r.ok THEN r.st ELSE state
           /\ unlock' = Some(IF r.ok THEN [unlock[1] EXCEPT !.pc = "resume"]
                             ELSE [unlock[1] EXCEPT !.pc = "done", !.rc = 1])
           /\ lastOp' = [op |-> "mark_failed", to |-> "failed", run |-> "-",
                         src |-> None, arg |-> "manual unlock", again |-> FALSE,
                         ok |-> r.ok]
    /\ UNCHANGED << now, inputs, rollback, scVars, lkVars, wrVars >>

\* codex_adapter.resume_execution(state_path): no executor_info, a fresh run id
UnlockResume ==
    /\ UnlockAt("resume")
    /\ \E src \in inputs.sources :
         LET r == resume_execution(state, OperatorRun, src, now)
         IN  /\ r.ok => InBounds(r.st)
             /\ state' = IF r.ok THEN [r.st EXCEPT !.executor = None] ELSE state
             /\ unlock' = Some([unlock[1] EXCEPT
                                  !.pc = "done", !.rc = IF r.ok THEN 0 ELSE 1])
             /\ lastOp' = [op |-> "resume_execution", to |-> "executing",
                           run |-> OperatorRun, src |-> src, arg |-> "-",
                           again |-> FALSE, ok |-> r.ok]
    /\ UNCHANGED << now, inputs, rollback, scVars, lkVars, wrVars >>

\* a pending record, the callers of UnlockInputs, and no unlock yet
InitUnlock ==
    /\ state = init_state
    /\ now = 0
    /\ unlock = None
    /\ rollback = None
    /\ lastOp = [op |-> "init_state", to |-> "pending", run |-> "-", src |-> None,
                 arg |-> "-", again |-> FALSE, ok |-> TRUE]
    /\ inputs = UnlockInputs
    /\ NoManifest
    /\ NoProcesses
    /\ NoWriter

NextUnlock ==
    \/ UnlockBegin
    \/ UnlockMarkFailed
    \/ UnlockResume
    \/ StartExecution
    \/ ResumeExecution
    \/ MarkVerified
    \/ MarkFailed
    \/ MarkBlocked
    \/ UpdateState
    \/ Tick

SpecUnlock == InitUnlock /\ [][NextUnlock]_vars

\* ------------------------- SpecRollback: codex_adapter.rollback_execution
\* rollback_execution reads the record under no lock, runs the rollback command
\* and writes the record it read back, under no lock either; the calls of other
\* processes run while the command does.

\* the callers next to the rollback: one run, and a status patch
RollbackInputs == [BaseInputs EXCEPT !.patches = {[status |-> "executing"]}]

\* read_state(state_path); then subprocess.run is under way
RollbackBegin ==
    /\ rollback = None
    /\ rollback' = Some(state)
    /\ UNCHANGED << state, now, lastOp, inputs, unlock, scVars, lkVars, wrVars >>

\* the command returned: failure_reason is set on the record that was read, and
\* write_state puts that record at the state path
RollbackPersist ==
    /\ rollback # None
    /\ \E rc \in ReturnCodes : state' = rollback_result(rollback[1], rc)
    /\ rollback' = None
    /\ lastOp' = [op |-> "rollback_execution", to |-> "-", run |-> "-",
                  src |-> None, arg |-> "-", again |-> FALSE, ok |-> TRUE]
    /\ UNCHANGED << now, inputs, unlock, scVars, lkVars, wrVars >>

InitRollback ==
    /\ state = init_state
    /\ now = 0
    /\ unlock = None
    /\ rollback = None
    /\ lastOp = [op |-> "init_state", to |-> "pending", run |-> "-", src |-> None,
                 arg |-> "-", again |-> FALSE, ok |-> TRUE]
    /\ inputs = RollbackInputs
    /\ NoManifest
    /\ NoProcesses
    /\ NoWriter

NextRollback ==
    \/ RollbackBegin
    \/ RollbackPersist
    \/ StartExecution
    \/ ResumeExecution
    \/ CompleteTask
    \/ RecordVerification
    \/ MarkVerified
    \/ MarkFailed
    \/ MarkBlocked
    \/ UpdateState

SpecRollback == InitRollback /\ [][NextRollback]_vars

\* ---------------------------------------------------- properties of Spec

\* the six pairs of the transition table, as the specification lists them
ClaimedTable ==
    {<< "pending", "executing" >>, << "executing", "verified" >>,
     << "executing", "failed" >>, << "executing", "blocked" >>,
     << "blocked", "executing" >>, << "failed", "executing" >>}

\* this step is a call that asked for status `to`
Requested(to) == lastOp'.to = to /\ lastOp'.op # "tick"

StatusMovesAlongTable ==
    state'.status # state.status =>
        << state.status, state'.status >> \in ClaimedTable

AllTasksCompleted(st) == \A k \in 1..st.total_tasks : k \in Elems(st.completed_tasks)

SomeResultRecorded(st) ==
    /\ st.verification # None
    /\ \E tier \in DOMAIN st.verification[1] : st.verification[1][tier] # << >>

\* C7: mark_verified never succeeds on a record whose completed_tasks misses
\* a task index of 1..total_tasks (mark_verified leaves completed_tasks as
\* it found them).
C7_VerifiedCoversAllTasks ==
    (lastOp.op = "mark_verified" /\ lastOp.ok) => AllTasksCompleted(state)

\* C8: mark_verified raises and leaves the record unchanged when no tier
\* holds a result, whatever tasks are completed; on an executing record with
\* every task completed and a result recorded it succeeds with status
\* verified.
C8_VerifiedNeedsResults ==
    [][lastOp'.op = "mark_verified" =>
        /\ ~SomeResultRecorded(state) => (~lastOp'.ok /\ state' = state)
        /\ (state.status = "executing" /\ AllTasksCompleted(state)
              /\ SomeResultRecorded(state))
            => (lastOp'.ok /\ state'.status = "verified")]_vars

\* mark_verified was refused on an executing record with every task
\* completed and no result
C8_Witness ==
    /\ lastOp.op = "mark_verified" /\ ~lastOp.ok
    /\ state.status = "executing"
    /\ AllTasksCompleted(state)
    /\ ~SomeResultRecorded(state)

\* C9: a stored record whose status is verified or failed has no lease.
C9_TerminalHasNoLease ==
    state.status \in {"verified", "failed"} => state.lock = None

\* C10: a successful mark_blocked leaves lock, completed_tasks and cursor as
\* they were, and a successful resume_execution leaves completed_tasks and
\* cursor as they were.
C10_BlockedKeepsLease ==
    [][/\ (lastOp'.op = "mark_blocked" /\ lastOp'.ok) =>
            /\ state'.lock = state.lock
            /\ state'.completed_tasks = state.completed_tasks
            /\ state'.cursor = state.cursor
       /\ (lastOp'.op = "resume_execution" /\ lastOp'.ok) =>
            /\ state'.completed_tasks = state.completed_tasks
            /\ state'.cursor = state.cursor]_vars

\* a plan with a lease, a completed task and a cursor was blocked
C10_Witness ==
    /\ lastOp.op = "mark_blocked" /\ lastOp.ok
    /\ state.status = "blocked"
    /\ state.lock # None
    /\ state.completed_tasks # << >>
    /\ state.cursor # None

\* the call of this step finds the source document changed
DriftFound == lastOp'.src # None /\ lastOp'.src[1] # state.source_plan_hash

\* the call of this step is op, made with the source document as recorded
CalledClean(op) == lastOp'.op = op /\ ~DriftFound

\* C11: resume_execution by a run other than the holder of an unexpired lease on
\* a blocked plan succeeds, appends exactly one note, a lease_handoff naming
\* the previous and the new run, and leaves the plan executing under the new
\* run's lease.
C11_CooperativeHandoff ==
    [][(/\ CalledClean("resume_execution")
        /\ state.status = "blocked"
        /\ state.lock # None
        /\ state.lock[1].expires_at > now
        /\ state.lock[1].run_id # lastOp'.run)
       => /\ lastOp'.ok
          /\ state'.recovery_notes =
                Append(state.recovery_notes,
                       [event           |-> "lease_handoff",
                        previous_run_id |-> state.lock[1].run_id,
                        taken_over_at   |-> now,
                        new_run_id      |-> lastOp'.run])
          /\ state'.status = "executing"
          /\ state'.lock # None
          /\ state'.lock[1].run_id = lastOp'.run]_vars

LastNote(st) == st.recovery_notes[Len(st.recovery_notes)]

\* r2 resumed the plan r1 had blocked, by handoff
C11_Witness ==
    /\ lastOp.op = "resume_execution" /\ lastOp.ok /\ lastOp.run = "r2"
    /\ state.recovery_notes # << >>
    /\ LastNote(state).event = "lease_handoff"
    /\ LastNote(state).previous_run_id = "r1"
    /\ state.lock # None /\ state.lock[1].run_id = "r2"

\* C12: resume_execution on a blocked plan whose lease has expired succeeds,
\* appends exactly one note, a lease_expired_takeover naming the expired holder
\* and the new run, and leaves the plan executing under the new run's lease.
C12_ExpiredTakeover ==
    [][(/\ CalledClean("resume_execution")
        /\ state.status = "blocked"
        /\ state.lock # None
        /\ state.lock[1].expires_at <= now)
       => /\ lastOp'.ok
          /\ state'.recovery_notes =
                Append(state.recovery_notes,
                       [event                |-> "lease_expired_takeover",
                        previous_run_id      |-> state.lock[1].run_id,
                        previous_acquired_at |-> state.lock[1].acquired_at,
                        previous_expires_at  |-> state.lock[1].expires_at,
                        taken_over_at        |-> now,
                        new_run_id           |-> lastOp'.run])
          /\ state'.status = "executing"
          /\ state'.lock # None
          /\ state'.lock[1].run_id = lastOp'.run]_vars

\* r2 resumed the plan r1 had blocked, after r1's lease expired
C12_Witness ==
    /\ lastOp.op = "resume_execution" /\ lastOp.ok /\ lastOp.run = "r2"
    /\ state.recovery_notes # << >>
    /\ LastNote(state).event = "lease_expired_takeover"
    /\ LastNote(state).previous_run_id = "r1"
    /\ state.lock # None /\ state.lock[1].run_id = "r2"

\* C13: start_execution succeeds only on a pending plan and leaves it
\* executing, with cursor {task 1, step 0} and the caller's lease, expiring
\* later than now; it is rejected while a different run holds an unexpired lease.
C13_StartExecution ==
    [][lastOp'.op = "start_execution" =>
        /\ lastOp'.ok =>
              /\ state.status = "pending"
              /\ state'.status = "executing"
              /\ state'.cursor = Some([task |-> 1, step |-> 0])
              /\ state'.lock # None
              /\ state'.lock[1].run_id = lastOp'.run
              /\ state'.lock[1].expires_at > now
        /\ (/\ state.lock # None
            /\ state.lock[1].expires_at > now
            /\ state.lock[1].run_id # lastOp'.run)
           => (~lastOp'.ok /\ state' = state)]_vars

\* a pending plan under r1's unexpired lease refused r2's start
C13_Witness ==
    /\ lastOp.op = "start_execution" /\ ~lastOp.ok /\ lastOp.run = "r2"
    /\ state.status = "pending"
    /\ state.lock # None /\ state.lock[1].run_id = "r1" /\ state.lock[1].expires_at > now

\* C14: start_execution and resume_execution raise when the source document's
\* hash differs from source_plan_hash, and the stored record stays as it was.
C14_DriftRefused ==
    [][(lastOp'.op \in {"start_execution", "resume_execution"} /\ DriftFound)
       => (~lastOp'.ok /\ state' = state)]_vars

\* a failed plan without a lease refused a resume that found the source changed
C14_Witness ==
    /\ lastOp.op = "resume_execution" /\ ~lastOp.ok
    /\ lastOp.src # None /\ lastOp.src[1] # state.source_plan_hash
    /\ state.status = "failed"
    /\ state.lock = None

\* C15: renew_lock by a run that does not hold the lease, or on a record
\* without a lease, raises and leaves the record as it was.
C15_RenewalHolderOnly ==
    [][(/\ lastOp'.op = "renew_lock"
        /\ (state.lock = None \/ state.lock[1].run_id # lastOp'.run))
       => (~lastOp'.ok /\ state' = state)]_vars

\* after the handoff from r1 to r2, r1's renewal was refused
C15_Witness ==
    /\ lastOp.op = "renew_lock" /\ ~lastOp.ok /\ lastOp.run = "r1"
    /\ state.lock # None /\ state.lock[1].run_id = "r2"
    /\ state.recovery_notes # << >>
    /\ LastNote(state).previous_run_id = "r1"
    /\ LastNote(state).new_run_id = "r2"

\* C19: an operation that raises leaves the stored record as it was.
C19_NoPartialMutation ==
    [][(lastOp'.op \in {"start_execution", "resume_execution", "complete_task",
                        "advance_step", "renew_lock", "record_verification",
                        "mark_verified", "mark_failed", "mark_blocked",
                        "update_state"}
        /\ ~lastOp'.ok)
       => state' = state]_vars

\* C21: complete_task(k) on an executing plan leaves the cursor at
\* {task k+1, step 0} when k is not the last task and at {task k, step -1}
\* when k = total_tasks.
C21_CursorOnCompletion ==
    [][(lastOp'.op = "complete_task" /\ state.status = "executing")
       => /\ lastOp'.ok
          /\ state'.cursor =
                IF lastOp'.arg = state.total_tasks
                THEN Some([task |-> lastOp'.arg, step |-> -1])
                ELSE Some([task |-> lastOp'.arg + 1, step |-> 0])]_vars

\* sorted ascending and without duplicates
StrictlyAscending(seq) == \A i \in 1..(Len(seq) - 1) : seq[i] < seq[i + 1]

\* C22: complete_task(k) right after a complete_task(k) that succeeded leaves
\* completed_tasks and the cursor as they were, and k is in the list once.
C22_CompletionIdempotent ==
    [][(lastOp'.op = "complete_task" /\ lastOp'.again)
       => /\ lastOp'.ok
          /\ state'.completed_tasks = state.completed_tasks
          /\ state'.cursor = state.cursor
          /\ Cardinality({i \in 1..Len(state'.completed_tasks) :
                             state'.completed_tasks[i] = lastOp'.arg}) = 1]_vars

\* complete_task(1) was called twice in a row
C22_Witness ==
    /\ lastOp.op = "complete_task" /\ lastOp.again /\ lastOp.ok /\ lastOp.arg = 1
    /\ state.completed_tasks = << 1 >>
    /\ state.cursor = Some([task |-> 2, step |-> 0])

\* C23: complete_task, advance_step, record_verification and mark_verified
\* raise on a record that is not executing and leave it as it was.
C23_RequireExecuting ==
    [][(/\ lastOp'.op \in {"complete_task", "advance_step", "record_verification",
                           "mark_verified"}
        /\ state.status # "executing")
       => (~lastOp'.ok /\ state' = state)]_vars

\* advance_step was refused on a blocked record
C23_Witness ==
    /\ lastOp.op = "advance_step" /\ ~lastOp.ok
    /\ state.status = "blocked"

\* C27: mark_failed on an executing plan succeeds and leaves status failed,
\* failure_reason the given reason, blocked_reason null and no lease.
C27_MarkFailedAlways ==
    [][(lastOp'.op = "mark_failed" /\ state.status = "executing")
       => /\ lastOp'.ok
          /\ state'.status = "failed"
          /\ state'.failure_reason = Some(lastOp'.arg)
          /\ state'.blocked_reason = None
          /\ state'.lock = None]_vars

\* a plan with a completed task and a recorded verification result was failed
C27_Witness ==
    /\ lastOp.op = "mark_failed" /\ lastOp.ok
    /\ state.completed_tasks # << >>
    /\ SomeResultRecorded(state)
    /\ state.failure_reason = Some("boom")

\* C28: completed_tasks is sorted ascending, has no duplicates, and every
\* element is in 1..total_tasks.
C28_CompletedTasksBounded ==
    /\ StrictlyAscending(state.completed_tasks)
    /\ \A i \in 1..Len(state.completed_tasks) :
          state.completed_tasks[i] \in 1..state.total_tasks

\* failure_reason is not set together with blocked_reason or blocked_severity
Exclusive(st) ==
    st.failure_reason = None \/ (st.blocked_reason = None /\ st.blocked_severity = None)

ExplainingOps == {"start_execution", "mark_blocked", "resume_execution",
                  "mark_failed", "mark_verified"}

\* C29: start, mark_blocked, resume, mark_failed and mark_verified keep
\* failure_reason from being set together with blocked_reason or
\* blocked_severity.
C29_ExplanationsExclusive ==
    [][(/\ lastOp.op \in ExplainingOps
        /\ lastOp'.op \in ExplainingOps
        /\ Exclusive(state))
       => Exclusive(state')]_vars

\* C30: when cursor.step is -1, completed_tasks holds every task 1..total_tasks.
C30_SentinelTruthful ==
    (state.cursor # None /\ state.cursor[1].step = -1)
        => \A k \in 1..state.total_tasks : k \in Elems(state.completed_tasks)

\* seq is an initial part of longer
IsPrefix(seq, longer) ==
    Len(seq) <= Len(longer) /\ \A i \in 1..Len(seq) : longer[i] = seq[i]

Tiers(st) == IF st.verification = None THEN {} ELSE DOMAIN st.verification[1]

\* C32: whatever the operation, the recovery notes before it are a prefix of
\* the notes after it and every tier's results before it are a prefix of that
\* tier's results after it; a successful record_verification lengthens the
\* results of one tier by one and leaves the status alone.
C32_AuditLogsAppendOnly ==
    [][/\ IsPrefix(state.recovery_notes, state'.recovery_notes)
       /\ \A tier \in Tiers(state) :
             IsPrefix(TierResults(state.verification, tier),
                      TierResults(state'.verification, tier))
       /\ (lastOp'.op = "record_verification" /\ lastOp'.ok) =>
             /\ state'.status = state.status
             /\ NumResults(state') = NumResults(state) + 1]_vars

\* C33: no operation changes plan_id or total_tasks of the record, and an
\* update_state whose patch names a field outside PATCHABLE_FIELDS raises and
\* leaves the record as it was, whatever else the patch names.
C33_IdentityFrozen ==
    [][/\ state'.plan_id = state.plan_id
       /\ state'.total_tasks = state.total_tasks
       /\ (lastOp'.op = "update_state"
           /\ DOMAIN lastOp'.arg \ PATCHABLE_FIELDS # {}) =>
             ~lastOp'.ok /\ state' = state]_vars

\* update_state was given an unknown field on a plan under execution
C33_Witness ==
    /\ lastOp.op = "update_state" /\ ~lastOp.ok
    /\ "unknown_field" \in DOMAIN lastOp.arg
    /\ state.status = "executing" /\ state.completed_tasks # << >>
    /\ state.plan_id = init_state.plan_id /\ state.total_tasks = TotalTasks

\* renew_lock is called by the run that holds the lease of the record
RenewedByHolder ==
    /\ lastOp'.op = "renew_lock"
    /\ state.lock # None
    /\ state.lock[1].run_id = lastOp'.run

\* what renew_lock leaves alone
RenewalFrame ==
    /\ state'.lock # None
    /\ state'.lock[1].run_id = state.lock[1].run_id
    /\ state'.lock[1].acquired_at = state.lock[1].acquired_at
    /\ state'.status = state.status
    /\ state'.cursor = state.cursor
    /\ state'.completed_tasks = state.completed_tasks

ResumedByHolder ==
    /\ lastOp'.op = "resume_execution"
    /\ state.status = "blocked"
    /\ state.lock # None
    /\ state.lock[1].run_id = lastOp'.run

\* C35: resume_execution on a blocked plan by the run that holds its unexpired
\* lease fails and leaves the record as it was (blocked, the lease and the
\* recovery notes untouched); once the lease has run out the same call, made
\* with the source document as recorded, succeeds.
C35_NoSelfResume ==
    [][/\ (ResumedByHolder /\ state.lock[1].expires_at > now) =>
             ~lastOp'.ok /\ state' = state
       /\ (ResumedByHolder /\ ~DriftFound /\ state.lock[1].expires_at <= now) =>
             /\ lastOp'.ok
             /\ state'.status = "executing"
             /\ state'.lock # None /\ state'.lock[1].run_id = lastOp'.run]_vars

\* the holder tried to resume its own blocked plan before the lease ran out, and
\* was refused
C35_Witness ==
    /\ lastOp.op = "resume_execution" /\ ~lastOp.ok
    /\ lastOp.src = None
    /\ state.status = "blocked"
    /\ state.lock # None
    /\ state.lock[1].run_id = lastOp.run
    /\ state.lock[1].expires_at > now
    /\ state.recovery_notes = << >>

\* the operations that take no run id
AlwaysProgressOps == {"complete_task", "advance_step", "record_verification",
                      "mark_failed"}

\* C36: on an executing plan complete_task, advance_step, record_verification
\* and mark_failed succeed, mark_blocked writes the blocked record, and
\* mark_verified succeeds exactly when the tasks are counted complete and a
\* result is recorded - with a lease of any run, run out or not, or none.
C36_ProgressIgnoresLease ==
    [][state.status = "executing" =>
          /\ lastOp'.op \in AlwaysProgressOps => lastOp'.ok
          /\ lastOp'.op = "mark_failed" => state'.status = "failed"
          /\ lastOp'.op = "mark_blocked" => state'.status = "blocked"
          /\ lastOp'.op = "mark_verified" =>
                /\ lastOp'.ok <=> (~tasks_incomplete(state) /\ has_results(state))
                /\ lastOp'.ok => state'.status = "verified"]_vars

\* a task was completed under a lease that had run out, on a plan whose lease
\* had been handed over to another run before
C36_Witness ==
    /\ lastOp.op = "complete_task" /\ lastOp.ok
    /\ state.status = "executing"
    /\ state.lock # None
    /\ state.lock[1].expires_at <= now
    /\ state.recovery_notes # << >>
    /\ state.completed_tasks # << >>

\* C37: in every reachable state an executing record carries a lease with a
\* run id, and a pending record carries none.
C37_ExecutingImpliesLeased ==
    /\ state.status = "executing" => state.lock # None
    /\ state.status = "pending" => state.lock = None

\* ----------------------------------------------- properties of SpecSched

\* the live status of a plan: the status in its record; for a plan whose
\* record cmd_archive has taken away, the status that record had
LiveStatus(pid) == IF store[pid] # None THEN store[pid][1] ELSE archived[pid]

AllRecordsPresent == \A e \in Entries(manifest) : store[e.plan_id] # None

\* the plans a dependency token names: those with one of the seven token
\* forms equal to it after trim and lower-casing
Targets(token) ==
    {e.plan_id : e \in {x \in Entries(manifest) :
        \E t \in EntryTokens(x) : Normalize(t) = Normalize(token)}}

\* the last scheduler call returned a list with plan pid in it
InResult(pid) ==
    /\ schedOut # None
    /\ schedOut[1].ok
    /\ \E i \in 1..Len(schedOut[1].plans) : schedOut[1].plans[i] = pid

LowerWaveUnverified(P) ==
    \E other \in Entries(manifest) :
        other.wave < P.wave /\ LiveStatus(other.plan_id) # "verified"

PassesFilters(P, out) ==
    /\ out.plan_id = NoPlan \/ out.plan_id = P.plan_id
    /\ out.wave = None \/ out.wave[1] = P.wave

\* C4: a plan in the result of get_eligible_plans or get_next_plan has every
\* plan of a strictly lower wave verified, dependency declared or not.
C4_WaveBarrier ==
    \A P \in Entries(manifest) :
        InResult(P.plan_id) => ~LowerWaveUnverified(P)

Deps(P) == {P.depends_on[i] : i \in 1..Len(P.depends_on)}

\* a pending plan whose dependencies are all verified is left out because a
\* plan of a lower wave, which it does not depend on, is not verified
C4_Witness ==
    /\ schedOut # None
    /\ schedOut[1].ok
    /\ \E P \in Entries(manifest) :
          /\ LiveStatus(P.plan_id) = "pending"
          /\ \A d \in Deps(P) :
                /\ Cardinality(Targets(d)) = 1
                /\ \A t \in Targets(d) : LiveStatus(t) = "verified"
          /\ PassesFilters(P, schedOut[1])
          /\ LowerWaveUnverified(P)
          /\ ~InResult(P.plan_id)

\* C5: a plan in the result has every depends_on token naming exactly one
\* plan, whose live status is verified; a token naming no plan keeps the plan
\* out of the result and, where no token is ambiguous, the call returns.
C5_DependencyRule ==
    /\ \A P \in Entries(manifest) :
          InResult(P.plan_id) =>
              \A d \in Deps(P) :
                  /\ Cardinality(Targets(d)) = 1
                  /\ \A t \in Targets(d) : LiveStatus(t) = "verified"
    /\ \A P \in Entries(manifest) :
          (\E d \in Deps(P) : Targets(d) = {}) => ~InResult(P.plan_id)
    /\ (/\ schedOut # None
        /\ \A P \in Entries(manifest) : \A d \in Deps(P) : Cardinality(Targets(d)) <= 1)
       => schedOut[1].ok

\* one plan is returned with its dependencies verified while another, pending
\* and past the wave barrier, is skipped for a token that names no plan
C5_Witness ==
    /\ schedOut # None
    /\ schedOut[1].ok
    /\ \E P \in Entries(manifest) : InResult(P.plan_id) /\ P.depends_on # << >>
    /\ \E Q \in Entries(manifest) :
          /\ LiveStatus(Q.plan_id) = "pending"
          /\ PassesFilters(Q, schedOut[1])
          /\ ~LowerWaveUnverified(Q)
          /\ \E d \in Deps(Q) : Targets(d) = {}
          /\ ~InResult(Q.plan_id)

Ambiguous(d) == Cardinality(Targets(d)) > 1

\* the evaluation of pending plan P gets to an ambiguous token: P passes the
\* filters and the wave barrier, and the tokens before it each name one
\* verified plan
ReachesAmbiguity(P, out) ==
    /\ LiveStatus(P.plan_id) = "pending"
    /\ PassesFilters(P, out)
    /\ ~LowerWaveUnverified(P)
    /\ \E i \in 1..Len(P.depends_on) :
          /\ Ambiguous(P.depends_on[i])
          /\ \A j \in 1..(i - 1) :
                /\ Cardinality(Targets(P.depends_on[j])) = 1
                /\ \A t \in Targets(P.depends_on[j]) : LiveStatus(t) = "verified"

StoreStatuses ==
    [pid \in {e.plan_id : e \in Entries(manifest)} |->
        IF store[pid] # None THEN store[pid][1] ELSE "no-state"]

\* the last call was get_eligible_plans
EligibleCalled == schedOut # None /\ schedOut[1].op = "get_eligible_plans"

\* what a call returned or raised
Outcome(r) == [ok |-> r.ok, plans |-> r.plans]

\* C24: the statuses get_eligible_plans decides on are those of the State
\* Store, never those mirrored in the manifest entries.
C24_LiveStatusOnly ==
    EligibleCalled =>
        Outcome(schedOut[1]) =
            Outcome(EligibleFrom(1, manifest, StoreStatuses,
                                 schedOut[1].wave, schedOut[1].plan_id))

\* the manifest entry of plan pid
EntryOf(pid) == CHOOSE e \in Entries(manifest) : e.plan_id = pid

\* C25: get_eligible_plans returns only plans whose record says pending (for a
\* record cmd_archive took away: said pending), in ascending order of manifest priority; get_next_plan returns
\* the first of them, the one of lowest priority value, or none.
C25_PendingInPriorityOrder ==
    (schedOut # None /\ schedOut[1].ok) =>
        LET plans == schedOut[1].plans
            all == get_eligible_plans(manifest, store, None, NoPlan).plans
        IN  IF schedOut[1].op = "get_eligible_plans"
            THEN /\ \A i \in 1..Len(plans) : LiveStatus(plans[i]) = "pending"
                 /\ \A i \in 1..(Len(plans) - 1) :
                       EntryOf(plans[i]).priority < EntryOf(plans[i + 1]).priority
            ELSE /\ plans = None <=> all = << >>
                 /\ plans # None =>
                       /\ LiveStatus(plans[1]) = "pending"
                       /\ \A i \in 1..Len(all) :
                             EntryOf(plans[1]).priority <= EntryOf(all[i]).priority

\* the call without its filters, on the same manifest and records
Unfiltered == get_eligible_plans(manifest, store, None, NoPlan)

\* the plans of a list that match the filters of call out
Matching(plans, out) == SelectSeq(plans, LAMBDA pid : PassesFilters(EntryOf(pid), out))

\* plan pid on its own is pending, past the wave barrier, with its
\* dependencies verified
EligibleAlone(pid) ==
    LET statuses == current_status_by_plan(manifest, store)
    IN  /\ statuses[pid] = "pending"
        /\ lower_waves_verified(EntryOf(pid), manifest, statuses)
        /\ dependencies_verified(EntryOf(pid), manifest, statuses) = "yes"

InCriticalSection(p) == pc[p] \in {"cs_read", "cs_write"}

\* C2: two processes are never both inside the critical section while
\* neither's lock-file expires_at has passed.
C2_MutualExclusion ==
    \A p, q \in Procs :
        (p # q /\ InCriticalSection(p) /\ InCriticalSection(q))
            => (now >= expires[p] \/ now >= expires[q])

\* C3: the stored record holds every task a complete_task call returned for.
C3_NoLostUpdate ==
    \A p \in Procs : returned[p] \subseteq Elems(state.completed_tasks)

\* process p removes the lock file in this step
Unlinks(p, at) == pc[p] = at /\ pc'[p] # at /\ lockFile # None /\ lockFile' = None

\* C17: an acquirer deletes the lock file it finds only when that file is
\* stale: its expires_at has passed or, without a payload, its age has reached
\* the lease.
C17_OnlyStaleLocksBroken ==
    [][\A p \in Procs :
          Unlinks(p, "break")
              => is_stale_lock(lockFile, DEFAULT_LOCK_LEASE_SECONDS, now)]_vars

\* C18: a process releasing the lock never deletes a lock file whose owner_id
\* is another call's.
C18_OwnerCheckedRelease ==
    [][\A p \in Procs :
          Unlinks(p, "unlink")
              => ~(/\ lockFile[1].payload # None
                   /\ lockFile[1].payload[1].owner_id # OwnerId(p))]_vars

\* process p is inside the loop of state_lock
Acquiring(p) == pc[p] \in {"open", "exists", "break"}

\* the last instant of the modelled clock
LastInstant == LockMaxTicks * TickSeconds + MaxShortTicks * LOCK_TIMEOUT_SECONDS

\* a step of p that finds another holder's lock file in place and not stale
\* leaves p waiting or ends the call with the timeout error, and that only at
\* or after the deadline; it changes neither the lock file nor the record
WaitsOrTimesOut(p) ==
    (/\ pc[p] \in {"open", "exists"}
     /\ pc'[p] # pc[p]
     /\ lockFile # None
     /\ ~is_stale_lock(lockFile, DEFAULT_LOCK_LEASE_SECONDS, now))
    => /\ pc'[p] \in {"open", "exists", "idle"}
       /\ lockFile' = lockFile
       /\ state' = state
       /\ pc'[p] = "idle" =>
             (now >= call[p].deadline /\ ~call'[p].ok /\ returned' = returned)
       /\ (pc[p] = "exists" /\ now >= call[p].deadline) => pc'[p] = "idle"

\* C16: state_lock never waits forever: a call in its loop acquires the lock
\* or raises the timeout error; and against an unexpired lock file that stays
\* in place it only waits and then times out, without entering its critical
\* section or writing the record.
C16_BoundedWait ==
    /\ [][\A p \in Procs : WaitsOrTimesOut(p)]_vars
    /\ \A p \in Procs :
          (Acquiring(p) /\ call[p].deadline <= LastInstant) ~> ~Acquiring(p)

\* a call timed out against a lock file that was in place, unexpired, since
\* before the call began
C16_Witness ==
    \E p \in Procs :
        /\ pc[p] = "idle" /\ call[p].op = "complete_task" /\ ~call[p].ok
        /\ call[p].n > 0 /\ TaskOf[p] \notin returned[p]
        /\ now >= call[p].deadline
        /\ lockFile # None
        /\ lockFile[1].mtime < call[p].deadline - LOCK_TIMEOUT_SECONDS
        /\ lockFile[1].payload # None
        /\ ~is_stale_lock(lockFile, DEFAULT_LOCK_LEASE_SECONDS, now)

\* ------------------------------------------------- properties of SpecWrite
\* C20: whatever step of write_state the writer dies at, a reader of the state
\* path gets a complete record, and it is the record from before the call or
\* the record the call was writing.
C20_AtomicWrite ==
    /\ stateIntact
    /\ state \in {writer.old, writer.new}
    /\ lastRead # None =>
          /\ lastRead[1].ok
          /\ lastRead[1].rec \in {lastRead[1].old, lastRead[1].new}

\* a reader read the previous record after the writer died with its temporary
\* file written, and another read the new record of a writer that died after
\* the rename
C20_Witness ==
    /\ lastRead # None
    /\ lastRead[1].died
    /\ lastRead[1].old # lastRead[1].new
    /\ lastRead[1].ok
    /\ lastRead[1].rec = lastRead[1].old
    /\ writer.died /\ state = writer.new /\ writer.old # writer.new

\* ------------------------------------------------ properties of SpecUnlock
\* C31: every step of cmd_unlock that changes the record moves the status
\* along the transition table; its mark_failed takes an executing record to
\* failed and clears the lease with it, its resume_execution takes a blocked or
\* failed record to executing under the operator's new lease, and no step
\* clears the lease of a record it leaves executing - whatever the calls of
\* other processes did between the steps.
C31_UnlockAlongTable ==
    [][(unlock # None /\ unlock' # unlock) =>
          /\ state'.status # state.status =>
                state'.status \in VALID_TRANSITIONS[state.status]
          /\ (state.status = "executing" /\ state'.status = "executing") =>
                state'.lock = state.lock
          /\ (UnlockAt("mark_failed") /\ state' # state) =>
                /\ state.status = "executing"
                /\ state'.status = "failed" /\ state'.lock = None
          /\ (UnlockAt("resume") /\ state' # state) =>
                /\ state.status \in {"blocked", "failed"}
                /\ state'.status = "executing"
                /\ state'.lock # None
                /\ state'.lock[1].run_id = OperatorRun
                /\ state'.lock[1].acquired_at = now]_vars

\* cmd_unlock read executing, failed the plan, another run resumed and blocked
\* it between the two steps, and the operator's resume took the lease over
C31_Witness ==
    /\ UnlockAt("done")
    /\ unlock[1].read = "executing" /\ unlock[1].rc = 0
    /\ state.status = "executing"
    /\ state.lock # None /\ state.lock[1].run_id = OperatorRun
    /\ state.recovery_notes # << >>
    /\ LastNote(state).event = "lease_handoff"
    /\ LastNote(state).previous_run_id = "r1"

\* ---------------------------------------------- properties of SpecRollback
\* C40: once the stored status is verified, no step - of an adapter call or of
\* a rollback_execution that overlaps mark_verified - changes the stored status
\* or gives the record a lease.
C40_VerifiedIsTerminal ==
    [][state.status = "verified" =>
          state'.status = "verified" /\ state'.lock = None]_vars

\* ------------------------------------------------- properties of SpecStart
\* the start_execution call of process p returned the executing record
Started(p) == call[p].op = "start_execution" /\ call[p].ok

\* C38: of the start_execution calls that run concurrently on one pending plan
\* at most one succeeds - here even with the lock-file lease of neither call
\* run out - and the stored lease holder and executor are those of the call
\* that succeeded.
C38_ExclusiveStart ==
    /\ \A p, q \in Procs :
          (Started(p) /\ Started(q) /\ now < expires[p] /\ now < expires[q])
             => p = q
    /\ \A p \in Procs :
          (Started(p) /\ \A q \in Procs \ {p} : ~Started(q)) =>
             /\ state.status = "executing"
             /\ state.lock # None /\ state.lock[1].run_id = RunOf[p]
             /\ state.executor = Some([run_id |-> RunOf[p]])


\* ----------------------------------------------- properties of SpecExecute

PlanIds == {e.plan_id : e \in Entries(manifest)}

\* every depends_on token of the manifest names exactly one plan
TokensResolve ==
    \A P \in Entries(manifest) : \A d \in Deps(P) : Cardinality(Targets(d)) = 1

\* plan p has a depends_on token that names plan q
DependsOn(p, q) == \E d \in Deps(EntryOf(p)) : q \in Targets(d)

\* no set of plans in which every plan depends on a plan of the set
Acyclic ==
    \A S \in SUBSET PlanIds :
        S # {} => \E p \in S : \A q \in S : ~DependsOn(p, q)

\* no plan depends on a plan of a higher wave
WavesFollowDeps ==
    \A p, q \in PlanIds : DependsOn(p, q) => EntryOf(q).wave <= EntryOf(p).wave

\* a plan is pending and every other plan is pending or verified
PendingAmongVerified ==
    /\ AllRecordsPresent
    /\ \E pid \in PlanIds : store[pid] = Some("pending")
    /\ \A pid \in PlanIds : store[pid] \in {Some("pending"), Some("verified")}

AllVerified == \A pid \in PlanIds : store[pid] = Some("verified")

\* the unfiltered call has returned a list with a plan in it
ReturnedEligible == EligibleCalled /\ schedOut[1].ok /\ schedOut[1].plans # << >>

\* C39 as the spec states it: with every token naming one plan and no cycle
\* of dependencies, the unfiltered get_eligible_plans returns a plan whenever
\* a plan is pending and the others are pending or verified, and starting
\* and verifying the eligible plans again and again verifies every plan.
C39_AsStated ==
    /\ []((EligibleCalled /\ TokensResolve /\ Acyclic /\ PendingAmongVerified)
             => ReturnedEligible)
    /\ (TokensResolve /\ Acyclic) => <>AllVerified

\* C39, with the hypothesis the code needs: when in addition no plan depends
\* on a plan of a higher wave, the unfiltered get_eligible_plans returns a
\* plan whenever a plan is pending and the others are pending or verified,
\* and starting and verifying the eligible plans again and again verifies
\* every plan.
C39_SchedulerProgress ==
    /\ []((EligibleCalled /\ TokensResolve /\ Acyclic /\ WavesFollowDeps
              /\ PendingAmongVerified) => ReturnedEligible)
    /\ (TokensResolve /\ Acyclic /\ WavesFollowDeps) => <>AllVerified

\* with a plan verified and a pending plan still held back by a dependency
\* or by the wave barrier, the call returns another plan
C39_Witness ==
    /\ TokensResolve /\ Acyclic /\ WavesFollowDeps
    /\ PendingAmongVerified
    /\ ReturnedEligible
    /\ \E pid \in PlanIds : store[pid] = Some("verified")
    /\ \E pid \in PlanIds : store[pid] = Some("pending") /\ ~InResult(pid)

=============================================================================
